---- MODULE Spec2Model ----
(***************************************************************************)
(* State-machine model of the PDF reader of pdf_merger.py (continuous      *)
(* scroll, two-up and facing layout, position-indexed navigation) and of   *)
(* the single-page reader of pdf_merger_enhanced.py.                       *)
(*                                                                         *)
(* Lengths are pixels.  zoom_level is held in fifths (5 is 1.0).  An x     *)
(* coordinate is held doubled (x2), because the single-column branch       *)
(* centres pages on canvas_width / 2.  Label and status-bar texts are not  *)
(* part of the state.                                                      *)
(***************************************************************************)
EXTENDS Integers, Sequences, FiniteSets, TLC

VARIABLES
    app,                 \* which program runs: "reader" or "enhanced"
    pdf_document,        \* [state: "none" | "open" | "closed", pages: Seq(size)]
    total_pages,
    current_page,
    zoom_level,
    two_up,
    facing_cover_right,
    has_page_positions,  \* hasattr(self, 'page_positions')
    page_positions,
    has_render_height,   \* hasattr(self, 'total_render_height')
    total_render_height,
    placements,          \* the images on the canvas, in drawing order
    scrollregion,        \* [set, w, h]: the canvas scrollregion
    top_y,               \* canvasy(0): canvas y of the top of the view
    canvas_width,        \* pdf_canvas.winfo_width(), fixed by the window
    prev_btn,            \* enhanced reader: Previous enabled
    next_btn,            \* enhanced reader: Next enabled
    is_editing,          \* reader program: a document was opened in the editor
    original_text,       \* editor: the page whose text the editor last loaded
    edited,              \* editor: the page the last applied change was drawn on
    last_pass,           \* how the last pass that entered the try of
                         \* render_all_pages ended: "none", "failed" or "done"
    pdf_files,           \* merger: the paths to merge, in order
    file_listbox,        \* merger: the names the listbox shows
    selection,           \* merger: file_listbox.curselection(), -1 when empty
    file_count,          \* merger: the number file_count_label shows
    merge_button,        \* merger: buttons enabled
    clear_button,
    remove_button,
    move_up_button,
    move_down_button,
    merger_status,       \* merger: merger_status_label
    merged,              \* the outcome of the last merge that wrote a file
    ev                   \* the last event handled and what it reported

vars == <<app, pdf_document, total_pages, current_page, zoom_level, two_up,
          facing_cover_right, has_page_positions, page_positions,
          has_render_height, total_render_height, placements, scrollregion,
          top_y, canvas_width, prev_btn, next_btn, is_editing, original_text,
          edited, last_pass,
          pdf_files, file_listbox, selection, file_count, merge_button,
          clear_button, remove_button, move_up_button, move_down_button,
          merger_status, merged, ev>>

layoutVars == <<has_page_positions, page_positions, has_render_height,
                total_render_height, placements, scrollregion, last_pass>>

docVars == <<pdf_document, total_pages, current_page>>

modeVars == <<two_up, facing_cover_right>>

\* what the reader of pdf_merger.py never writes
btnVars == <<prev_btn, next_btn, canvas_width>>

\* what only the editor tab of pdf_merger.py writes
editorVars == <<is_editing, original_text, edited>>

\* what only the merger writes
mergerButtons == <<merge_button, clear_button, remove_button, move_up_button,
                   move_down_button>>

mergerVars == <<pdf_files, file_listbox, selection, file_count, mergerButtons,
                merger_status, merged>>

\* what the merger never writes
readerVars == <<docVars, zoom_level, modeVars, layoutVars, top_y, btnVars, editorVars>>

----------------------------------------------------------------------------
(* Bounds of the model *)

\* longest document opened
MaxPages == 4

\* zoom steps away from 1.0 explored under Spec
ZoomSpan == 1

\* pages of the longest document opened where reader and editor share it
MaxSharedPages == 2

\* pages of the longest document opened where pages differ in size and
\* library calls may raise
MaxMixedPages == 3

\* entries of the longest list of files to merge
MaxFiles == 3

\* files chosen in one add_files dialog
MaxChosen == 2

\* how far an unconfined view (no scrollregion yet) is followed, in pixels
MaxFreeScroll == 500

(* Program constants *)

Y_START == 10

GAP == 20

ROW_GAP == 20

LEFT_MARGIN == 10

WIDTH_PAD == 20

DEFAULT_CANVAS_WIDTH == 800

MIN_TOTAL_WIDTH == 800

FALLBACK_PAGE_HEIGHT == 300

PAGE_KEY_UNITS == 25

ARROW_KEY_UNITS == 3

ZOOM_START == 5

ZOOM_MAX == 15

ZOOM_MIN == 2

\* a scroll unit of the canvas, in pixels: a tenth of the window height
WinUnit == 10

\* height of the canvas window, in pixels (set by the window manager)
WinH == 10 * WinUnit

----------------------------------------------------------------------------
(* Helpers *)

Max(a, b) == IF a >= b THEN a ELSE b

Min(a, b) == IF a <= b THEN a ELSE b

\* ceiling of a / b for a >= 0, b > 0
CeilDiv(a, b) == (a + b - 1) \div b

\* round-half-up of a / b for a >= 0, b > 0: (int)(x + 0.5)
RoundDiv(a, b) == (2 * a + b) \div (2 * b)

\* the render input standing for: no library call raises
NoFail == 0 - 1

----------------------------------------------------------------------------
(* Documents: a page is its size in points at zoom 1.0 *)

PageSizes == {[w |-> 80, h |-> 100], [w |-> 120, h |-> 60]}

NavPageSizes == {[w |-> 80, h |-> 100]}

RECURSIVE SeqsUpTo(_, _)
SeqsUpTo(S, n) ==
    IF n = 0 THEN {<< >>}
    ELSE LET shorter == SeqsUpTo(S, n - 1)
         IN shorter \cup {Append(s, x) : s \in {t \in shorter : Len(t) = n - 1}, x \in S}

Docs == SeqsUpTo(PageSizes, MaxPages)

NavDocs == SeqsUpTo(NavPageSizes, MaxPages)

NoDocument == [state |-> "none", pages |-> << >>]

\* fitz.Matrix(zoom, zoom) + get_pixmap: the pixmap covers the scaled page
\* rectangle, rounded outward to whole pixels
PixDim(d, zoom) == CeilDiv(d * zoom, 5)

Pix(doc, i, zoom) ==
    [w |-> PixDim(doc.pages[i + 1].w, zoom), h |-> PixDim(doc.pages[i + 1].h, zoom)]

\* bool(self.pdf_document): fitz.Document has __len__, so an open document is
\* true iff it has pages; None is false.  (A closed document raises.)
Truthy(doc) == doc.state = "open" /\ Len(doc.pages) > 0

\* a page of a document, as the editor refers to it
PageOf(doc, page) == [doc |-> doc, page |-> page]

\* no page: original_text before the first load, edited before the first change
NoText == [doc |-> NoDocument, page |-> 0 - 1]

\* editor_load_page on the given fields with n in the spinbox; fail: get_text
\* raises.  The result holds the new current_page and original_text and the
\* dialog shown ("Failed to load page" is the text of its "Error" dialog).
LoadPage(doc, tp, cur, editing, text, n, fail) ==
    IF ~Truthy(doc) \/ ~editing
    THEN [current_page |-> cur, original_text |-> text, msg |-> "none"]
    ELSE IF n - 1 < 0 \/ n - 1 >= tp
    THEN [current_page |-> cur, original_text |-> text, msg |-> "Invalid Page"]
    ELSE IF n - 1 >= Len(doc.pages) \/ fail
    THEN [current_page |-> n - 1, original_text |-> text,
          msg |-> "Failed to load page"]
    ELSE [current_page |-> n - 1, original_text |-> PageOf(doc, n - 1),
          msg |-> "none"]

----------------------------------------------------------------------------
(* The zoom level as the float the program holds.  Starting from 1.0 and    *)
(* adding or subtracting the double 0.2, the value at k fifths is           *)
(* k/5 + ZoomErr[k] * 2^-54 / 5 (IEEE-754 binary64, round to nearest).      *)

ZoomErr == <<6, 7, 8, 4, 0, -4, -8, -12, -16, -20, -24, -8, 8, 24, 40>>

\* zoom_level < b/5 and zoom_level > b/5 on the floats
ZoomLess(k, b) == k < b \/ (k = b /\ ZoomErr[k] < 0)

ZoomGreater(k, b) == k > b \/ (k = b /\ ZoomErr[k] > 0)

----------------------------------------------------------------------------
(* Tk canvas *)

\* CanvasSetOrigin: with a scrollregion set the view is confined to it
\* (confine is on by default); the canvas inset is taken as 0
Confine(y, region) ==
    LET top == y
        bottom == region.h - (y + WinH)
    IN IF ~region.set THEN y
       ELSE IF top < 0 /\ bottom > 0 THEN y + Min(0 - top, bottom)
       ELSE IF bottom < 0 /\ top > 0 THEN y + Max(bottom, 0 - top)
       ELSE y

\* yview_moveto(num / den): the new origin is (int)(fraction * height + 0.5),
\* then confined
MoveTo(num, den, region) == Confine(RoundDiv(num * region.h, den), region)

\* (int) of a quotient: C truncates toward zero
TruncDiv(a, b) == IF a >= 0 THEN a \div b ELSE 0 - ((0 - a) \div b)

\* yview_scroll(n, "units"): a unit is a tenth of the window height and the
\* new origin is (int)(y + n * 0.1 * height), then confined
ScrollUnits(y, n, region) == Confine(TruncDiv(10 * y + n * WinH, 10), region)

\* The record of one event: the handler (op), the text of the entry it read,
\* the dialog it showed (msg), whether it cleared the entry, whether it called
\* yview_moveto and with which fraction (num / den), whether the fraction came
\* from page_positions (exact), the units passed to yview_scroll, and how the
\* render pass it ran ended (pass: "none" when it ran no pass).
Event(op, text, msg) ==
    [op |-> op, text |-> text, msg |-> msg, cleared |-> FALSE,
     moved |-> FALSE, num |-> 0, den |-> 1, exact |-> FALSE, units |-> 0,
     pass |-> "none"]

Moved(op, text, num, den, exact, cleared) ==
    [op |-> op, text |-> text, msg |-> "none", cleared |-> cleared,
     moved |-> TRUE, num |-> num, den |-> den, exact |-> exact, units |-> 0,
     pass |-> "none"]

Scrolled(op, units) ==
    [op |-> op, text |-> << >>, msg |-> "none", cleared |-> FALSE,
     moved |-> FALSE, num |-> 0, den |-> 1, exact |-> FALSE, units |-> units,
     pass |-> "none"]

\* a move_up or move_down that moved the selected file
Reordered(op) == [Event(op, << >>, "none") EXCEPT !.moved = TRUE]

----------------------------------------------------------------------------
(* Entry texts and int(): a text is a sequence of characters *)

DigitChars == <<"0", "1", "2", "3", "4", "5", "6", "7", "8", "9">>

IsDigit(c) == \E i \in 1 .. 10 : DigitChars[i] = c

DigitVal(c) == (CHOOSE i \in 1 .. 10 : DigitChars[i] = c) - 1

RECURSIVE LStrip(_)
LStrip(t) == IF t # << >> /\ Head(t) = " " THEN LStrip(Tail(t)) ELSE t

RECURSIVE RStrip(_)
RStrip(t) ==
    IF t # << >> /\ t[Len(t)] = " " THEN RStrip(SubSeq(t, 1, Len(t) - 1)) ELSE t

RECURSIVE DigitsVal(_, _)
DigitsVal(t, acc) ==
    IF t = << >> THEN acc ELSE DigitsVal(Tail(t), 10 * acc + DigitVal(Head(t)))

\* int(text): surrounding blanks are dropped, one sign is allowed, the rest
\* must be one or more decimal digits; anything else raises ValueError
PyInt(text) ==
    LET t == RStrip(LStrip(text))
        signed == t # << >> /\ Head(t) \in {"-", "+"}
        body == IF signed THEN Tail(t) ELSE t
        ok == body # << >> /\ \A k \in 1 .. Len(body) : IsDigit(body[k])
    IN [ok |-> ok,
        val |-> IF ~ok THEN 0
                ELSE IF signed /\ Head(t) = "-" THEN 0 - DigitsVal(body, 0)
                ELSE DigitsVal(body, 0)]

\* what the user may have typed into the entry when Return or Go is pressed
EntryTexts ==
    {<<DigitChars[n + 1]>> : n \in 0 .. MaxPages + 1}
        \cup {<< >>, <<"a">>, <<"-", "1">>, <<" ", "2">>, <<"1", ".", "5">>}

----------------------------------------------------------------------------
(* render_all_pages, as the code computes it.  The pass walks page_index    *)
(* with an accumulator: y (y_offset), pos (page_positions), items (images   *)
(* drawn), tw (total_width), ok (no exception so far).  failAt is the page  *)
(* whose get_pixmap / frombytes / PhotoImage raises, or NoFail.            *)

StartAcc ==
    [i |-> 0, y |-> Y_START, pos |-> << >>, items |-> << >>, tw |-> 0, ok |-> TRUE]

Item(page, x2, y, pix, anchor) ==
    [page |-> page, x2 |-> x2, y |-> y, w |-> pix.w, h |-> pix.h, anchor |-> anchor]

\* render_all_pages without the cover step: pairing starts at page 0
FacingCover_skipped(doc, tp, zoom, failAt, a) == a

\* the cover step without page_index += 1
FacingCover_no_advance(doc, tp, zoom, failAt, a) ==
    IF ~(a.i < tp) THEN a
    ELSE IF failAt = a.i THEN [a EXCEPT !.ok = FALSE]
    ELSE LET pix == Pix(doc, a.i, zoom)
             x1 == LEFT_MARGIN
             x2 == x1 + pix.w + GAP
         IN [i |-> a.i,
             y |-> a.y + pix.h + ROW_GAP,
             pos |-> Append(a.pos, a.y),
             items |-> Append(a.items, Item(a.i, 2 * x2, a.y, pix, "nw")),
             tw |-> Max(a.tw, x2 + pix.w + WIDTH_PAD),
             ok |-> TRUE]

\* lines 617-635: the cover, alone in the right-hand column
FacingCover(doc, tp, zoom, failAt, a) ==
    IF ~(a.i < tp) THEN a
    ELSE IF failAt = a.i THEN [a EXCEPT !.ok = FALSE]
    ELSE LET pix == Pix(doc, a.i, zoom)
             x1 == LEFT_MARGIN
             x2 == x1 + pix.w + GAP
         IN [i |-> a.i + 1,
             y |-> a.y + pix.h + ROW_GAP,
             pos |-> Append(a.pos, a.y),
             items |-> Append(a.items, Item(a.i, 2 * x2, a.y, pix, "nw")),
             tw |-> Max(a.tw, x2 + pix.w + WIDTH_PAD),
             ok |-> TRUE]

\* a two-up row that records one position for its two pages
TwoUpRow_one_position(doc, tp, zoom, a) ==
    LET pl == Pix(doc, a.i, zoom)
        x1 == LEFT_MARGIN
        x2 == x1 + pl.w + GAP
        paired == a.i + 1 < tp
        pr == Pix(doc, IF paired THEN a.i + 1 ELSE a.i, zoom)
    IN [i |-> IF paired THEN a.i + 2 ELSE a.i + 1,
        y |-> a.y + (IF paired THEN Max(pl.h, pr.h) ELSE pl.h) + ROW_GAP,
        pos |-> Append(a.pos, a.y),
        items |-> IF paired
                  THEN a.items \o <<Item(a.i, 2 * x1, a.y, pl, "nw"),
                                     Item(a.i + 1, 2 * x2, a.y, pr, "nw")>>
                  ELSE Append(a.items, Item(a.i, 2 * x1, a.y, pl, "nw")),
        tw |-> Max(a.tw, (IF paired THEN pl.w + GAP + pr.w ELSE pl.w)
                            + x1 + WIDTH_PAD),
        ok |-> TRUE]

\* a two-up row as high as its left page
TwoUpRow_left_height(doc, tp, zoom, a) ==
    LET pl == Pix(doc, a.i, zoom)
        x1 == LEFT_MARGIN
        x2 == x1 + pl.w + GAP
        paired == a.i + 1 < tp
        pr == Pix(doc, IF paired THEN a.i + 1 ELSE a.i, zoom)
    IN [i |-> IF paired THEN a.i + 2 ELSE a.i + 1,
        y |-> a.y + pl.h + ROW_GAP,
        pos |-> IF paired THEN a.pos \o <<a.y, a.y>> ELSE Append(a.pos, a.y),
        items |-> IF paired
                  THEN a.items \o <<Item(a.i, 2 * x1, a.y, pl, "nw"),
                                     Item(a.i + 1, 2 * x2, a.y, pr, "nw")>>
                  ELSE Append(a.items, Item(a.i, 2 * x1, a.y, pl, "nw")),
        tw |-> Max(a.tw, (IF paired THEN pl.w + GAP + pr.w ELSE pl.w)
                            + x1 + WIDTH_PAD),
        ok |-> TRUE]

\* a two-up row that records its right page before its left page
TwoUpRow_right_first(doc, tp, zoom, a) ==
    LET pl == Pix(doc, a.i, zoom)
        x1 == LEFT_MARGIN
        x2 == x1 + pl.w + GAP
        paired == a.i + 1 < tp
        pr == Pix(doc, IF paired THEN a.i + 1 ELSE a.i, zoom)
    IN [i |-> IF paired THEN a.i + 2 ELSE a.i + 1,
        y |-> a.y + (IF paired THEN Max(pl.h, pr.h) ELSE pl.h) + ROW_GAP,
        pos |-> IF paired THEN a.pos \o <<a.y, a.y>> ELSE Append(a.pos, a.y),
        items |-> IF paired
                  THEN a.items \o <<Item(a.i + 1, 2 * x2, a.y, pr, "nw"),
                                     Item(a.i, 2 * x1, a.y, pl, "nw")>>
                  ELSE Append(a.items, Item(a.i, 2 * x1, a.y, pl, "nw")),
        tw |-> Max(a.tw, (IF paired THEN pl.w + GAP + pr.w ELSE pl.w)
                            + x1 + WIDTH_PAD),
        ok |-> TRUE]

\* a two-up row that never takes a right page
TwoUpRow_never_pairs(doc, tp, zoom, a) ==
    LET pl == Pix(doc, a.i, zoom)
        x1 == LEFT_MARGIN
    IN [i |-> a.i + 1,
        y |-> a.y + pl.h + ROW_GAP,
        pos |-> Append(a.pos, a.y),
        items |-> Append(a.items, Item(a.i, 2 * x1, a.y, pl, "nw")),
        tw |-> Max(a.tw, pl.w + x1 + WIDTH_PAD),
        ok |-> TRUE]

\* lines 638-684: one left/right row per iteration
TwoUpRow(doc, tp, zoom, a) ==
    LET pl == Pix(doc, a.i, zoom)
        x1 == LEFT_MARGIN
        x2 == x1 + pl.w + GAP
    IN IF a.i + 1 < tp
       THEN LET pr == Pix(doc, a.i + 1, zoom)
                row_width == pl.w + GAP + pr.w
                row_height == Max(pl.h, pr.h)
            IN [i |-> a.i + 2,
                y |-> a.y + row_height + ROW_GAP,
                pos |-> a.pos \o <<a.y, a.y>>,
                items |-> a.items \o <<Item(a.i, 2 * x1, a.y, pl, "nw"),
                                       Item(a.i + 1, 2 * x2, a.y, pr, "nw")>>,
                tw |-> Max(a.tw, row_width + x1 + WIDTH_PAD),
                ok |-> TRUE]
       ELSE [i |-> a.i + 1,
             y |-> a.y + pl.h + ROW_GAP,
             pos |-> Append(a.pos, a.y),
             items |-> Append(a.items, Item(a.i, 2 * x1, a.y, pl, "nw")),
             tw |-> Max(a.tw, pl.w + x1 + WIDTH_PAD),
             ok |-> TRUE]

RECURSIVE TwoUpLoop(_, _, _, _, _)
TwoUpLoop(doc, tp, zoom, failAt, a) ==
    IF ~a.ok \/ ~(a.i < tp) THEN a
    ELSE IF failAt = a.i \/ (a.i + 1 < tp /\ failAt = a.i + 1)
         THEN [a EXCEPT !.ok = FALSE]
    ELSE TwoUpLoop(doc, tp, zoom, failAt, TwoUpRow(doc, tp, zoom, a))

\* a single-column iteration that does not advance y_offset
SingleRow_no_advance(doc, zoom, cw, a) ==
    LET pix == Pix(doc, a.i, zoom)
    IN [i |-> a.i + 1,
        y |-> a.y,
        pos |-> Append(a.pos, a.y),
        items |-> Append(a.items, Item(a.i, cw, a.y, pix, "n")),
        tw |-> Max(a.tw, cw),
        ok |-> TRUE]

\* a single-column iteration that advances y_offset by the page height only
SingleRow_no_gap(doc, zoom, cw, a) ==
    LET pix == Pix(doc, a.i, zoom)
    IN [i |-> a.i + 1,
        y |-> a.y + pix.h,
        pos |-> Append(a.pos, a.y),
        items |-> Append(a.items, Item(a.i, cw, a.y, pix, "n")),
        tw |-> Max(a.tw, cw),
        ok |-> TRUE]

\* lines 692-716: one centred page per iteration
SingleRow(doc, zoom, cw, a) ==
    LET pix == Pix(doc, a.i, zoom)
    IN [i |-> a.i + 1,
        y |-> a.y + pix.h + ROW_GAP,
        pos |-> Append(a.pos, a.y),
        items |-> Append(a.items, Item(a.i, cw, a.y, pix, "n")),
        tw |-> Max(a.tw, cw),
        ok |-> TRUE]

RECURSIVE SingleLoop(_, _, _, _, _, _)
SingleLoop(doc, tp, zoom, failAt, cw, a) ==
    IF ~a.ok \/ ~(a.i < tp) THEN a
    ELSE IF failAt = a.i THEN [a EXCEPT !.ok = FALSE]
    ELSE SingleLoop(doc, tp, zoom, failAt, cw,
                    SingleRow(doc, zoom, cw, a))

\* lines 607-716
LayoutPass(doc, tp, zoom, tu, facing, failAt, winfo_width) ==
    IF tu
    THEN TwoUpLoop(doc, tp, zoom, failAt,
                   IF facing THEN FacingCover(doc, tp, zoom, failAt, StartAcc)
                   ELSE StartAcc)
    ELSE SingleLoop(doc, tp, zoom, failAt,
                    IF winfo_width <= 1 THEN DEFAULT_CANVAS_WIDTH ELSE winfo_width,
                    StartAcc)

\* winfo_width() of the canvas: 1 before the window is mapped
CanvasWidths == {1, 680}

\* What one call of render_all_pages does: "raised" (the truth test of a
\* closed document raises before the try), "skipped" (early return),
\* "failed" (an exception inside the try: Rendering Error) or "done".
RenderOutcome(doc, tp, failAt) ==
    IF doc.state = "closed" THEN "raised"
    ELSE IF ~Truthy(doc) \/ tp = 0 THEN "skipped"
    ELSE IF failAt # NoFail THEN "failed"
    ELSE "done"

\* the effect of render_all_pages on the layout state, given the document,
\* zoom and mode it runs with
render_all_pages(doc, tp, zoom, tu, facing, failAt, winfo_width) ==
    \E a \in {IF RenderOutcome(doc, tp, failAt) \in {"failed", "done"}
               THEN LayoutPass(doc, tp, zoom, tu, facing, failAt, winfo_width)
               ELSE StartAcc} :
    LET out == RenderOutcome(doc, tp, failAt)
        region == [set |-> TRUE, w |-> Max(a.tw, MIN_TOTAL_WIDTH), h |-> Max(a.y, 1)]
    IN CASE out \in {"raised", "skipped"} ->
              /\ UNCHANGED layoutVars
              /\ top_y' = top_y
         [] out = "failed" ->
              /\ has_page_positions' = TRUE
              /\ page_positions' = a.pos
              /\ placements' = a.items
              /\ UNCHANGED <<has_render_height, total_render_height, scrollregion>>
              /\ last_pass' = "failed"
              /\ top_y' = top_y
         [] out = "done" ->
              /\ has_page_positions' = TRUE
              /\ page_positions' = a.pos
              /\ placements' = a.items
              /\ has_render_height' = TRUE
              /\ total_render_height' = Max(a.y, 1)
              /\ scrollregion' = region
              /\ last_pass' = "done"
              /\ top_y' = Confine(top_y, region)

RenderMsg(out) == IF out = "failed" THEN "Rendering Error" ELSE "none"

\* the event of a handler whose render pass ended with out
Rendered(op, text, msg, out) == [Event(op, text, msg) EXCEPT !.pass = out]

----------------------------------------------------------------------------
(* The merger, the same code in pdf_merger.py and pdf_merger_enhanced.py:   *)
(* a list of paths, the listbox showing their names, and the merge itself,  *)
(* which test_merge.py has as a function of a list.  A button calls its     *)
(* handler only while it is enabled.  A page of the output is the page      *)
(* object it was copied from: page idx of the reader opened for entry       *)
(* number entry of the list, on file.  The output path is a file of its     *)
(* own.                                                                     *)

NoSelection == 0 - 1

\* the files the dialogs offer: path, Path(path).name and number of pages
DiskFiles ==
    {[path |-> "test1.pdf", name |-> "test1.pdf", pages |-> 1],
     [path |-> "test2.pdf", name |-> "test2.pdf", pages |-> 1],
     [path |-> "test3.pdf", name |-> "test3.pdf", pages |-> 1],
     [path |-> "/docs/two.pdf", name |-> "two.pdf", pages |-> 2],
     [path |-> "/docs/empty.pdf", name |-> "empty.pdf", pages |-> 0]}

\* the files chosen in the merger and handed to the function of test_merge.py
ChoosableFiles == {"test1.pdf", "/docs/two.pdf", "/docs/empty.pdf"}

\* test_files of main in test_merge.py
SampleFiles == <<"test1.pdf", "test2.pdf", "test3.pdf">>

NoMerge == [state |-> "none", files |-> << >>, pages |-> << >>, total_pages |-> 0]

\* len(PdfReader(f).pages)
PageCount(f) == (CHOOSE d \in DiskFiles : d.path = f).pages

\* Path(file_path).name
FileName(f) == (CHOOSE d \in DiskFiles : d.path = f).name

\* the listbox entries for a list of paths
FileNames(files) == [i \in 1 .. Len(files) |-> FileName(files[i])]

\* reader.pages of the reader opened for entry k of the list
ReaderPages(f, k) ==
    [i \in 1 .. PageCount(f) |-> [entry |-> k, file |-> f, idx |-> i - 1]]

NewWriter == [pages |-> << >>, total_pages |-> 0]

\* for page in reader.pages: writer.add_page(page); total_pages += 1
RECURSIVE AddPages(_, _, _)
AddPages(pages, i, w) ==
    IF i > Len(pages) THEN w
    ELSE AddPages(pages, i + 1,
                  [pages |-> Append(w.pages, pages[i]),
                   total_pages |-> w.total_pages + 1])

\* a merge loop that puts each file's pages before those already added
RECURSIVE MergeLoop_newest_first(_, _, _)
MergeLoop_newest_first(files, k, w) ==
    IF k > Len(files) THEN w
    ELSE MergeLoop_newest_first(files, k + 1,
             [pages |-> ReaderPages(files[k], k) \o w.pages,
              total_pages |-> w.total_pages + PageCount(files[k])])

\* for pdf_file in pdf_files: reader = PdfReader(pdf_file); ...
RECURSIVE MergeLoop(_, _, _)
MergeLoop(files, k, w) ==
    IF k > Len(files) THEN w
    ELSE MergeLoop(files, k + 1, AddPages(ReaderPages(files[k], k), 1, w))

\* the file writer.write leaves and the count the merge reports
Written(files) ==
    \E w \in {MergeLoop(files, 1, NewWriter)} :
        merged' = [state |-> "written", files |-> files, pages |-> w.pages,
                   total_pages |-> w.total_pages]

\* validate_pdf: the file can be read and has a page
validate_pdf(f) == PageCount(f) > 0

\* the entries add_files appends for the chosen files, and whether it
\* skipped one
RECURSIVE Validated(_)
Validated(chosen) ==
    IF chosen = << >> THEN << >>
    ELSE IF validate_pdf(Head(chosen)) THEN <<Head(chosen)>> \o Validated(Tail(chosen))
    ELSE Validated(Tail(chosen))

\* update_merger_ui_state for num_files entries and the selection sel
update_merger_ui_state(num_files, sel) ==
    /\ file_count' = num_files
    /\ merge_button' = (num_files >= 2)
    /\ clear_button' = (num_files > 0)
    /\ remove_button' = (sel # NoSelection)
    /\ move_up_button' = (sel # NoSelection /\ sel > 0)
    /\ move_down_button' = (sel # NoSelection /\ sel < num_files - 1)

RemoveAt(s, index) == SubSeq(s, 1, index) \o SubSeq(s, index + 2, Len(s))

InsertAt(s, index, x) == SubSeq(s, 1, index) \o <<x>> \o SubSeq(s, index + 1, Len(s))

\* a[index], a[other] = a[other], a[index]
Swap(s, index, other) ==
    [s EXCEPT ![index + 1] = s[other + 1], ![other + 1] = s[index + 1]]

IsGui == app \in {"reader", "enhanced"}

\* add_files: the dialog returns the chosen files (none when cancelled)
add_files(chosen) ==
    /\ IsGui
    /\ Len(pdf_files) + Len(chosen) <= MaxFiles
    /\ UNCHANGED <<app, readerVars, selection, merged>>
    /\ IF chosen # << >>
       THEN /\ pdf_files' = pdf_files \o Validated(chosen)
            /\ file_listbox' = file_listbox \o FileNames(Validated(chosen))
            /\ update_merger_ui_state(Len(pdf_files'), selection)
            /\ merger_status' = IF Len(Validated(chosen)) > 0 THEN "Added" ELSE merger_status
            /\ ev' = Event("add_files", << >>,
                           IF Validated(chosen) # chosen THEN "Invalid File" ELSE "none")
       ELSE /\ ev' = Event("add_files", << >>, "none")
            /\ UNCHANGED <<pdf_files, file_listbox, file_count, mergerButtons, merger_status>>

\* <<ListboxSelect>>: the user selected entry sel, or the selection was lost
on_select(sel) ==
    /\ IsGui
    /\ sel \in {NoSelection} \cup (0 .. Len(file_listbox) - 1)
    /\ selection' = sel
    /\ update_merger_ui_state(Len(pdf_files), sel)
    /\ ev' = Event("on_select", << >>, "none")
    /\ UNCHANGED <<app, readerVars, pdf_files, file_listbox, merger_status, merged>>

\* remove_selected: deleting the selected entry leaves nothing selected
remove_selected ==
    /\ IsGui
    /\ remove_button
    /\ ev' = Event("remove_selected", << >>, "none")
    /\ UNCHANGED <<app, readerVars, merged>>
    /\ IF selection # NoSelection
       THEN /\ file_listbox' = RemoveAt(file_listbox, selection)
            /\ pdf_files' = RemoveAt(pdf_files, selection)
            /\ selection' = NoSelection
            /\ update_merger_ui_state(Len(pdf_files'), NoSelection)
            /\ merger_status' = "File removed"
       ELSE UNCHANGED <<pdf_files, file_listbox, selection, file_count,
                        mergerButtons, merger_status>>

\* move_up swapping the paths and leaving the listbox as it is
move_up_paths_only ==
    /\ IsGui
    /\ move_up_button
    /\ UNCHANGED <<app, readerVars, merged, file_count, mergerButtons, file_listbox>>
    /\ IF selection # NoSelection /\ selection > 0
       THEN /\ pdf_files' = Swap(pdf_files, selection, selection - 1)
            /\ selection' = selection - 1
            /\ merger_status' = "File moved up"
            /\ ev' = Reordered("move_up")
       ELSE /\ ev' = Event("move_up", << >>, "none")
            /\ UNCHANGED <<pdf_files, selection, merger_status>>

\* move_up: it does not call update_merger_ui_state
move_up ==
    /\ IsGui
    /\ move_up_button
    /\ UNCHANGED <<app, readerVars, merged, file_count, mergerButtons>>
    /\ IF selection # NoSelection /\ selection > 0
       THEN /\ pdf_files' = Swap(pdf_files, selection, selection - 1)
            /\ file_listbox' = InsertAt(RemoveAt(file_listbox, selection),
                                        selection - 1, file_listbox[selection + 1])
            /\ selection' = selection - 1
            /\ merger_status' = "File moved up"
            /\ ev' = Reordered("move_up")
       ELSE /\ ev' = Event("move_up", << >>, "none")
            /\ UNCHANGED <<pdf_files, file_listbox, selection, merger_status>>

\* move_down leaving the selection at the old index
move_down_keeps_selection ==
    /\ IsGui
    /\ move_down_button
    /\ UNCHANGED <<app, readerVars, merged, file_count, mergerButtons, selection>>
    /\ IF selection # NoSelection /\ selection < Len(pdf_files) - 1
       THEN /\ pdf_files' = Swap(pdf_files, selection, selection + 1)
            /\ file_listbox' = InsertAt(RemoveAt(file_listbox, selection),
                                        selection + 1, file_listbox[selection + 1])
            /\ merger_status' = "File moved down"
            /\ ev' = Reordered("move_down")
       ELSE /\ ev' = Event("move_down", << >>, "none")
            /\ UNCHANGED <<pdf_files, file_listbox, merger_status>>

\* move_down: it does not call update_merger_ui_state
move_down ==
    /\ IsGui
    /\ move_down_button
    /\ UNCHANGED <<app, readerVars, merged, file_count, mergerButtons>>
    /\ IF selection # NoSelection /\ selection < Len(pdf_files) - 1
       THEN /\ pdf_files' = Swap(pdf_files, selection, selection + 1)
            /\ file_listbox' = InsertAt(RemoveAt(file_listbox, selection),
                                        selection + 1, file_listbox[selection + 1])
            /\ selection' = selection + 1
            /\ merger_status' = "File moved down"
            /\ ev' = Reordered("move_down")
       ELSE /\ ev' = Event("move_down", << >>, "none")
            /\ UNCHANGED <<pdf_files, file_listbox, selection, merger_status>>

\* clear_all: askyesno answers yes or no
clear_all ==
    /\ IsGui
    /\ clear_button
    /\ ev' = Event("clear_all", << >>, "Clear All")
    /\ UNCHANGED <<app, readerVars, merged>>
    /\ \/ /\ file_listbox' = << >>
          /\ pdf_files' = << >>
          /\ selection' = NoSelection
          /\ update_merger_ui_state(0, NoSelection)
          /\ merger_status' = "All files removed"
       \/ UNCHANGED <<pdf_files, file_listbox, selection, file_count,
                      mergerButtons, merger_status>>

\* merge_pdfs writing to the default name when the save dialog is cancelled
merge_pdfs_ignores_cancel ==
    /\ IsGui
    /\ merge_button
    /\ UNCHANGED <<app, readerVars, pdf_files, file_listbox, selection,
                   file_count, mergerButtons>>
    /\ IF Len(pdf_files) < 2
       THEN /\ ev' = Event("merge_pdfs", << >>, "Not Enough Files")
            /\ UNCHANGED <<merged, merger_status>>
       ELSE \/ /\ Written(pdf_files)
               /\ ev' = Event("merge_pdfs", << >>, "none")
               /\ UNCHANGED merger_status
            \/ /\ Written(pdf_files)
               /\ merger_status' = "Success"
               /\ ev' = Event("merge_pdfs", << >>, "Success")
            \/ /\ merged' \in {merged, [state |-> "broken", files |-> pdf_files,
                                       pages |-> << >>, total_pages |-> 0]}
               /\ merger_status' = "Error during merge"
               /\ ev' = Event("merge_pdfs", << >>, "Error")

\* merge_pdfs of the two programs: fewer than two files are refused; the
\* save dialog may be cancelled; PdfReader raising leaves no output, and
\* writer.write raising leaves a file that is no merge
merge_pdfs ==
    /\ IsGui
    /\ merge_button
    /\ UNCHANGED <<app, readerVars, pdf_files, file_listbox, selection,
                   file_count, mergerButtons>>
    /\ IF Len(pdf_files) < 2
       THEN /\ ev' = Event("merge_pdfs", << >>, "Not Enough Files")
            /\ UNCHANGED <<merged, merger_status>>
       ELSE \/ /\ ev' = Event("merge_pdfs", << >>, "none")
               /\ UNCHANGED <<merged, merger_status>>
            \/ /\ Written(pdf_files)
               /\ merger_status' = "Success"
               /\ ev' = Event("merge_pdfs", << >>, "Success")
            \/ /\ merged' \in {merged, [state |-> "broken", files |-> pdf_files,
                                       pages |-> << >>, total_pages |-> 0]}
               /\ merger_status' = "Error during merge"
               /\ ev' = Event("merge_pdfs", << >>, "Error")

\* merge_pdfs(pdf_files, output_file) of test_merge.py, returning total_pages
test_merge_pdfs(files) ==
    /\ app = "test_merge"
    /\ Written(files)
    /\ ev' = Event("test_merge_pdfs", << >>, "none")
    /\ UNCHANGED <<app, readerVars, pdf_files, file_listbox, selection,
                   file_count, mergerButtons, merger_status>>

\* main of test_merge.py: the three sample files, each made when reportlab
\* is there, are merged; without reportlab nothing is
test_main ==
    /\ app = "test_merge"
    /\ UNCHANGED <<app, readerVars, pdf_files, file_listbox, selection,
                   file_count, mergerButtons, merger_status>>
    /\ \/ /\ Written(SampleFiles)
          /\ ev' = Event("test_main", << >>, "completed")
       \/ /\ ev' = Event("test_main", << >>, "demo")
          /\ UNCHANGED merged

----------------------------------------------------------------------------
(* Initial state: __init__ of either program *)

InitFields ==
    /\ pdf_document = NoDocument
    /\ total_pages = 0
    /\ current_page = 0
    /\ zoom_level = ZOOM_START
    /\ two_up = FALSE
    /\ facing_cover_right = FALSE
    /\ has_page_positions = FALSE
    /\ page_positions = << >>
    /\ has_render_height = FALSE
    /\ total_render_height = 0
    /\ placements = << >>
    /\ scrollregion = [set |-> FALSE, w |-> 0, h |-> 0]
    /\ top_y = 0
    /\ canvas_width \in CanvasWidths
    /\ prev_btn = FALSE
    /\ next_btn = FALSE
    /\ is_editing = FALSE
    /\ original_text = NoText
    /\ edited = NoText
    /\ last_pass = "none"
    /\ pdf_files = << >>
    /\ file_listbox = << >>
    /\ selection = NoSelection
    /\ file_count = 0
    /\ merge_button = FALSE
    /\ clear_button = FALSE
    /\ remove_button = FALSE
    /\ move_up_button = FALSE
    /\ move_down_button = FALSE
    /\ merger_status = "Ready"
    /\ merged = NoMerge
    /\ ev = Event("init", << >>, "none")

Init == app \in {"reader", "enhanced"} /\ InitFields

----------------------------------------------------------------------------
(* The environment a specification explores: the files the user may open    *)
(* and whether library calls (fitz.open, get_pixmap, frombytes, PhotoImage) *)
(* may raise.                                                               *)

LayoutEnv == [files |-> Docs \ {<< >>}, mayFail |-> FALSE]

NavEnv == [files |-> NavDocs, mayFail |-> FALSE]

FaultyEnv == [files |-> NavDocs, mayFail |-> TRUE]

SharedEnv == [files |-> SeqsUpTo(NavPageSizes, MaxSharedPages), mayFail |-> TRUE]

\* whether one library call may raise
Fails(E) == IF E.mayFail THEN BOOLEAN ELSE {FALSE}

\* the pages at which one pass over doc may raise
FailPoints(E, doc) ==
    IF E.mayFail THEN {NoFail} \cup (0 .. Len(doc.pages) - 1) ELSE {NoFail}

----------------------------------------------------------------------------
(* The reader of pdf_merger.py: document, zoom and layout-mode events.      *)
(* A handler is modelled as one atomic step, its render pass included.      *)

\* open_pdf, the file dialog cancelled: nothing happens
OpenCancelled ==
    /\ ev' = Event("open_pdf", << >>, "none")
    /\ UNCHANGED <<docVars, zoom_level, modeVars, layoutVars, top_y>>

\* open_pdf, an exception inside the try: the truth test of a closed
\* document raises, or fitz.open raises after the previous document, if
\* any, was closed
OpenRaises ==
    /\ pdf_document' = IF Truthy(pdf_document)
                       THEN [pdf_document EXCEPT !.state = "closed"]
                       ELSE pdf_document
    /\ ev' = Event("open_pdf", << >>, "Error")
    /\ UNCHANGED <<total_pages, current_page, zoom_level, modeVars, layoutVars, top_y>>

\* open_pdf, fitz.open returns a document with the given pages
OpenSucceeds(E, pages) ==
    /\ pdf_document.state # "closed"
    /\ LET doc == [state |-> "open", pages |-> pages]
       IN /\ pdf_document' = doc
          /\ total_pages' = Len(pages)
          /\ current_page' = 0
          /\ zoom_level' = ZOOM_START
          /\ \E failAt \in FailPoints(E, doc) :
                /\ render_all_pages(doc, Len(pages), ZOOM_START, two_up,
                                    facing_cover_right, failAt, canvas_width)
                /\ \E out \in {RenderOutcome(doc, Len(pages), failAt)} :
                      ev' = Rendered("open_pdf", << >>, RenderMsg(out), out)
    /\ UNCHANGED modeVars

open_pdf(E) ==
    /\ app = "reader"
    /\ UNCHANGED <<app, mergerVars, btnVars, editorVars>>
    /\ \/ OpenCancelled
       \/ E.mayFail /\ OpenRaises
       \/ \E pages \in E.files : OpenSucceeds(E, pages)

\* the step of a handler that changed zoom or mode and then calls
\* render_all_pages on the document it holds
Rerender(E, op, zoom, tu, facing) ==
    \E failAt \in FailPoints(E, pdf_document) :
        /\ render_all_pages(pdf_document, total_pages, zoom, tu, facing, failAt, canvas_width)
        /\ \E out \in {RenderOutcome(pdf_document, total_pages, failAt)} :
              ev' = Rendered(op, << >>, RenderMsg(out), out)

zoom_in(E) ==
    /\ app = "reader"
    /\ UNCHANGED <<app, mergerVars, btnVars, editorVars, docVars, modeVars>>
    /\ IF ZoomLess(zoom_level, ZOOM_MAX)
       THEN /\ zoom_level' = zoom_level + 1
            /\ Rerender(E, "zoom_in", zoom_level + 1, two_up, facing_cover_right)
       ELSE /\ ev' = Event("zoom_in", << >>, "none")
            /\ UNCHANGED <<zoom_level, layoutVars, top_y>>

zoom_out(E) ==
    /\ app = "reader"
    /\ UNCHANGED <<app, mergerVars, btnVars, editorVars, docVars, modeVars>>
    /\ IF ZoomGreater(zoom_level, ZOOM_MIN)
       THEN /\ zoom_level' = zoom_level - 1
            /\ Rerender(E, "zoom_out", zoom_level - 1, two_up, facing_cover_right)
       ELSE /\ ev' = Event("zoom_out", << >>, "none")
            /\ UNCHANGED <<zoom_level, layoutVars, top_y>>

\* toggle_two_up without the reset of facing_cover_right
toggle_two_up_keeps_facing(E) ==
    /\ app = "reader"
    /\ UNCHANGED <<app, mergerVars, btnVars, editorVars, docVars, zoom_level>>
    /\ two_up' = ~two_up
    /\ facing_cover_right' = facing_cover_right
    /\ Rerender(E, "toggle_two_up", zoom_level, two_up', facing_cover_right')

toggle_two_up(E) ==
    /\ app = "reader"
    /\ UNCHANGED <<app, mergerVars, btnVars, editorVars, docVars, zoom_level>>
    /\ two_up' = ~two_up
    /\ facing_cover_right' = IF ~two_up' THEN FALSE ELSE facing_cover_right
    /\ Rerender(E, "toggle_two_up", zoom_level, two_up', facing_cover_right')

\* the Checkbutton flips facing_cover_right, then calls the handler
toggle_facing_mode(E) ==
    /\ app = "reader"
    /\ UNCHANGED <<app, mergerVars, btnVars, editorVars, docVars, zoom_level>>
    /\ facing_cover_right' = ~facing_cover_right
    /\ two_up' = IF facing_cover_right' /\ ~two_up THEN TRUE ELSE two_up
    /\ Rerender(E, "toggle_facing_mode", zoom_level, two_up', facing_cover_right')

\* editor_open_pdf of the same program: it replaces the document the reader
\* shows (pdf_document, total_pages, current_page are shared) and loads the
\* text of its first page; it does not call render_all_pages.  Cancelled, it
\* does nothing; an exception inside the try leaves the previous document
\* closed; get_text raising inside editor_load_page is reported there and
\* editor_open_pdf carries on.
editor_open_pdf(E) ==
    /\ app = "reader"
    /\ UNCHANGED <<app, mergerVars, btnVars, zoom_level, modeVars, layoutVars, top_y>>
    /\ \/ /\ ev' = Event("editor_open_pdf", << >>, "none")
          /\ UNCHANGED <<docVars, editorVars>>
       \/ /\ E.mayFail
          /\ pdf_document' = IF Truthy(pdf_document)
                             THEN [pdf_document EXCEPT !.state = "closed"]
                             ELSE pdf_document
          /\ ev' = Event("editor_open_pdf", << >>, "Error")
          /\ UNCHANGED <<total_pages, current_page, editorVars>>
       \/ \E pages \in E.files, fail \in Fails(E) :
             /\ pdf_document.state # "closed"
             /\ LET doc == [state |-> "open", pages |-> pages]
                    r == LoadPage(doc, Len(pages), 0, TRUE, original_text, 1, fail)
                IN /\ pdf_document' = doc
                   /\ total_pages' = Len(pages)
                   /\ current_page' = r.current_page
                   /\ is_editing' = TRUE
                   /\ original_text' = r.original_text
                   /\ ev' = Event("editor_open_pdf", << >>, r.msg)
             /\ UNCHANGED edited

\* editor_load_page, from the Reload button with n in the spinbox
editor_load_page(E, n) ==
    /\ app = "reader"
    /\ is_editing
    /\ UNCHANGED <<app, mergerVars, btnVars, zoom_level, modeVars, layoutVars, top_y>>
    /\ UNCHANGED <<pdf_document, total_pages, is_editing, edited>>
    /\ IF pdf_document.state = "closed"
       THEN /\ ev' = Event("editor_load_page", << >>, "raised")
            /\ UNCHANGED <<current_page, original_text>>
       ELSE \E fail \in Fails(E) :
               LET r == LoadPage(pdf_document, total_pages, current_page,
                                 is_editing, original_text, n, fail)
               IN /\ current_page' = r.current_page
                  /\ original_text' = r.original_text
                  /\ ev' = Event("editor_load_page", << >>, r.msg)

\* editor_apply_changes, from the Apply button; changed: the text in the
\* editor differs from original_text, blocks: the page has text blocks
editor_apply_changes(E) ==
    /\ app = "reader"
    /\ is_editing
    /\ UNCHANGED <<app, mergerVars, btnVars, zoom_level, modeVars, layoutVars, top_y>>
    /\ UNCHANGED <<docVars, is_editing, original_text>>
    /\ IF pdf_document.state = "closed"
       THEN /\ ev' = Event("editor_apply_changes", << >>, "raised")
            /\ UNCHANGED edited
       ELSE IF ~Truthy(pdf_document)
       THEN /\ ev' = Event("editor_apply_changes", << >>, "none")
            /\ UNCHANGED edited
       ELSE \E changed \in BOOLEAN, blocks \in BOOLEAN, fail \in Fails(E) :
               IF original_text = NoText
               THEN /\ ev' = Event("editor_apply_changes", << >>, "Error")
                    /\ UNCHANGED edited
               ELSE IF ~changed
               THEN /\ ev' = Event("editor_apply_changes", << >>, "No Changes")
                    /\ UNCHANGED edited
               ELSE IF current_page >= Len(pdf_document.pages) \/ fail \/ ~blocks
               THEN /\ ev' = Event("editor_apply_changes", << >>, "Error")
                    /\ UNCHANGED edited
               ELSE /\ edited' = PageOf(pdf_document, current_page)
                    /\ ev' = Event("editor_apply_changes", << >>, "Success")

----------------------------------------------------------------------------
(* Layout specification: the reader under document, zoom and mode events,   *)
(* with every document of up to MaxPages pages and no library call raising. *)

InitReader == Init /\ app = "reader"

NextLayout ==
    \/ open_pdf(LayoutEnv)
    \/ zoom_in(LayoutEnv)
    \/ zoom_out(LayoutEnv)
    \/ toggle_two_up(LayoutEnv)
    \/ toggle_facing_mode(LayoutEnv)

SpecLayout == InitReader /\ [][NextLayout]_vars

----------------------------------------------------------------------------
(* The reader of pdf_merger.py: navigation.  These handlers write nothing   *)
(* but the canvas view (top_y).                                             *)

navFrame == <<app, mergerVars, btnVars, editorVars, docVars, zoom_level, modeVars, layoutVars>>

\* getattr(self, 'total_render_height', max(y, 1))
RenderHeightOr(y) == IF has_render_height THEN total_render_height ELSE Max(y, 1)

\* jump_to_page always taking the linear estimate
JumpTarget_linear(page_num) ==
    [num |-> page_num * FALLBACK_PAGE_HEIGHT,
     den |-> total_pages * FALLBACK_PAGE_HEIGHT, exact |-> FALSE]

\* lines 732-739: the fraction jump_to_page passes to yview_moveto for the
\* 0-based page_num, and whether it was read from page_positions
JumpTarget(page_num) ==
    IF has_page_positions /\ Len(page_positions) = total_pages
    THEN LET y_position == page_positions[page_num + 1]
         IN [num |-> y_position, den |-> RenderHeightOr(y_position), exact |-> TRUE]
    ELSE [num |-> page_num * FALLBACK_PAGE_HEIGHT,
          den |-> total_pages * FALLBACK_PAGE_HEIGHT, exact |-> FALSE]

\* jump_to_page taking an entry text that is no integer for page 1
jump_to_page_lenient(text) ==
    /\ app = "reader"
    /\ UNCHANGED navFrame
    /\ LET parsed == PyInt(text)
           page_num == IF parsed.ok THEN parsed.val - 1 ELSE 0
       IN IF 0 <= page_num /\ page_num < total_pages
          THEN \E t \in {JumpTarget(page_num)} :
                  /\ top_y' = MoveTo(t.num, t.den, scrollregion)
                  /\ ev' = Moved("jump_to_page", text, t.num, t.den, t.exact, TRUE)
          ELSE /\ ev' = Event("jump_to_page", text, "Invalid Page")
               /\ top_y' = top_y

\* jump_to_page clamping an out-of-range number into the document instead
\* of rejecting it
jump_to_page_clamped(text) ==
    /\ app = "reader"
    /\ UNCHANGED navFrame
    /\ LET parsed == PyInt(text)
           page_num == Max(0, Min(total_pages - 1, parsed.val - 1))
       IN IF ~parsed.ok
          THEN /\ ev' = Event("jump_to_page", text, "Invalid Input")
               /\ top_y' = top_y
          ELSE IF total_pages > 0
          THEN \E t \in {JumpTarget(page_num)} :
                  /\ top_y' = MoveTo(t.num, t.den, scrollregion)
                  /\ ev' = Moved("jump_to_page", text, t.num, t.den, t.exact, TRUE)
          ELSE /\ ev' = Event("jump_to_page", text, "Invalid Page")
               /\ top_y' = top_y

jump_to_page(text) ==
    /\ app = "reader"
    /\ UNCHANGED navFrame
    /\ LET parsed == PyInt(text)
           page_num == parsed.val - 1
       IN IF ~parsed.ok
          THEN /\ ev' = Event("jump_to_page", text, "Invalid Input")
               /\ top_y' = top_y
          ELSE IF 0 <= page_num /\ page_num < total_pages
          THEN \E t \in {JumpTarget(page_num)} :
                  /\ top_y' = MoveTo(t.num, t.den, scrollregion)
                  /\ ev' = Moved("jump_to_page", text, t.num, t.den, t.exact, TRUE)
          ELSE /\ ev' = Event("jump_to_page", text, "Invalid Page")
               /\ top_y' = top_y

\* lines 790-795: the index of the last page whose top is at or above the
\* top of the view (0 when there is none), scanning until the first page below
RECURSIVE ScanIdx(_, _, _, _)
ScanIdx(positions, top, i, idx) ==
    IF i >= Len(positions) THEN idx
    ELSE IF positions[i + 1] <= top + 1 THEN ScanIdx(positions, top, i + 1, i)
    ELSE idx

CurrentIdx == ScanIdx(page_positions, top_y, 0, 0)

PageUpTarget(idx) == Max(0, idx - 1)

PageDownTarget(idx) == Min(Len(page_positions) - 1, idx + 1)

\* the page step common to _on_page_up and _on_page_down: target is the
\* 0-based page to show, units the yview_scroll fallback
PageStep(op, target, units) ==
    /\ app = "reader"
    /\ UNCHANGED navFrame
    /\ IF has_page_positions /\ page_positions # << >>
       THEN \E y \in {page_positions[target + 1]} :
               /\ top_y' = MoveTo(y, RenderHeightOr(y), scrollregion)
               /\ ev' = Moved(op, << >>, y, RenderHeightOr(y), TRUE, FALSE)
       ELSE /\ top_y' = ScrollUnits(top_y, units, scrollregion)
            /\ ev' = Scrolled(op, units)

on_page_up == PageStep("on_page_up", PageUpTarget(CurrentIdx), 0 - PAGE_KEY_UNITS)

on_page_down == PageStep("on_page_down", PageDownTarget(CurrentIdx), PAGE_KEY_UNITS)

on_home ==
    /\ app = "reader"
    /\ UNCHANGED navFrame
    /\ top_y' = MoveTo(0, 1, scrollregion)
    /\ ev' = Moved("on_home", << >>, 0, 1, FALSE, FALSE)

on_end ==
    /\ app = "reader"
    /\ UNCHANGED navFrame
    /\ top_y' = MoveTo(1, 1, scrollregion)
    /\ ev' = Moved("on_end", << >>, 1, 1, FALSE, FALSE)

\* event.delta of <MouseWheel>: multiples of 120 where a notch is 120, small
\* numbers where the platform reports lines
WheelDeltas == {0 - 240, 0 - 120, 0 - 1, 1, 120, 240}

\* the mouse wheel changing the zoom instead of scrolling
on_mousewheel_zooming(delta) ==
    /\ app = "reader"
    /\ UNCHANGED <<app, mergerVars, btnVars, editorVars, docVars, modeVars, layoutVars>>
    /\ zoom_level' = IF delta > 0 THEN Min(zoom_level + 1, ZOOM_MAX)
                     ELSE Max(zoom_level - 1, ZOOM_MIN)
    /\ top_y' = top_y
    /\ ev' = Scrolled("on_mousewheel", 0 - (delta \div 120))

\* _on_mousewheel: yview_scroll(-1 * (event.delta // 120), "units")
on_mousewheel(delta) ==
    /\ app = "reader"
    /\ UNCHANGED navFrame
    /\ top_y' = ScrollUnits(top_y, 0 - (delta \div 120), scrollregion)
    /\ ev' = Scrolled("on_mousewheel", 0 - (delta \div 120))

\* _on_key_up: yview_scroll(-3, "units")
on_key_up ==
    /\ app = "reader"
    /\ UNCHANGED navFrame
    /\ top_y' = ScrollUnits(top_y, 0 - ARROW_KEY_UNITS, scrollregion)
    /\ ev' = Scrolled("on_key_up", 0 - ARROW_KEY_UNITS)

\* _on_key_down: yview_scroll(3, "units")
on_key_down ==
    /\ app = "reader"
    /\ UNCHANGED navFrame
    /\ top_y' = ScrollUnits(top_y, ARROW_KEY_UNITS, scrollregion)
    /\ ev' = Scrolled("on_key_down", ARROW_KEY_UNITS)

----------------------------------------------------------------------------
(* The single-page reader of pdf_merger_enhanced.py.  It shows one page,    *)
(* current_page, and has Previous / Next buttons.  A handler is modelled as *)
(* callable in every state: a disabled button removes one way to call it.   *)

enhFrame == <<app, mergerVars, canvas_width, editorVars, last_pass, modeVars, has_page_positions, page_positions,
              has_render_height, total_render_height>>

\* the pass may raise (fail) in get_pixmap / frombytes / PhotoImage
RenderPageOutcome(doc, tp, cur, fail) ==
    IF doc.state = "closed" THEN "raised"
    ELSE IF ~Truthy(doc) \/ cur >= tp THEN "skipped"
    ELSE IF fail THEN "failed"
    ELSE "done"

render_page(doc, tp, cur, zoom, fail) ==
    IF RenderPageOutcome(doc, tp, cur, fail) = "done"
    THEN \E pix \in {Pix(doc, cur, zoom)} :
            /\ placements' = <<Item(cur, 0, 0, pix, "nw")>>
            /\ scrollregion' = [set |-> TRUE, w |-> pix.w, h |-> pix.h]
            /\ top_y' = Confine(top_y, [set |-> TRUE, w |-> pix.w, h |-> pix.h])
    ELSE UNCHANGED <<placements, scrollregion, top_y>>

\* update_reader_navigation enabling Next on every page
update_reader_navigation_next_always(tp, cur) ==
    /\ prev_btn' = (tp > 0 /\ cur > 0)
    /\ next_btn' = (tp > 0)

update_reader_navigation(tp, cur) ==
    /\ prev_btn' = (tp > 0 /\ cur > 0)
    /\ next_btn' = (tp > 0 /\ cur < tp - 1)

enh_open_pdf(E) ==
    /\ app = "enhanced"
    /\ UNCHANGED enhFrame
    /\ \/ /\ ev' = Event("enh_open_pdf", << >>, "none")
          /\ UNCHANGED <<docVars, zoom_level, placements, scrollregion, top_y,
                         prev_btn, next_btn>>
       \/ /\ E.mayFail
          /\ pdf_document' = IF Truthy(pdf_document)
                             THEN [pdf_document EXCEPT !.state = "closed"]
                             ELSE pdf_document
          /\ ev' = Event("enh_open_pdf", << >>, "Error")
          /\ UNCHANGED <<total_pages, current_page, zoom_level, placements,
                         scrollregion, top_y, prev_btn, next_btn>>
       \/ \E pages \in E.files, fail \in Fails(E) :
             LET doc == [state |-> "open", pages |-> pages]
             IN /\ pdf_document.state # "closed"
                /\ pdf_document' = doc
                /\ total_pages' = Len(pages)
                /\ current_page' = 0
                /\ zoom_level' = ZOOM_START
                /\ render_page(doc, Len(pages), 0, ZOOM_START, fail)
                /\ update_reader_navigation(Len(pages), 0)
                /\ \E out \in {RenderPageOutcome(doc, Len(pages), 0, fail)} :
                      ev' = Rendered("enh_open_pdf", << >>, RenderMsg(out), out)

\* the tail of prev_page, next_page and goto_page once current_page is set to
\* cur: render_page and, unless it raised, update_reader_navigation
ShowPage(E, op, text, cur, raisedMsg) ==
    \E fail \in Fails(E) :
        LET out == RenderPageOutcome(pdf_document, total_pages, cur, fail)
        IN /\ current_page' = cur
           /\ render_page(pdf_document, total_pages, cur, zoom_level, fail)
           /\ IF out = "raised"
              THEN /\ UNCHANGED <<prev_btn, next_btn>>
                   /\ ev' = Rendered(op, text, raisedMsg, out)
              ELSE /\ update_reader_navigation(total_pages, cur)
                   /\ ev' = Rendered(op, text, RenderMsg(out), out)

enhIdle == <<current_page, placements, scrollregion, top_y, prev_btn, next_btn>>

prev_page(E) ==
    /\ app = "enhanced"
    /\ UNCHANGED <<enhFrame, pdf_document, total_pages, zoom_level>>
    /\ IF current_page > 0
       THEN ShowPage(E, "prev_page", << >>, current_page - 1, "none")
       ELSE /\ ev' = Event("prev_page", << >>, "none")
            /\ UNCHANGED enhIdle

next_page(E) ==
    /\ app = "enhanced"
    /\ UNCHANGED <<enhFrame, pdf_document, total_pages, zoom_level>>
    /\ IF current_page < total_pages - 1
       THEN ShowPage(E, "next_page", << >>, current_page + 1, "none")
       ELSE /\ ev' = Event("next_page", << >>, "none")
            /\ UNCHANGED enhIdle

\* a ValueError raised by render_page on a closed document is caught by
\* goto_page's own except ValueError
goto_page(E, text) ==
    /\ app = "enhanced"
    /\ UNCHANGED <<enhFrame, pdf_document, total_pages, zoom_level>>
    /\ LET parsed == PyInt(text)
           page_num == parsed.val - 1
       IN IF ~parsed.ok
          THEN /\ ev' = Event("goto_page", text, "Invalid Input")
               /\ UNCHANGED enhIdle
          ELSE IF 0 <= page_num /\ page_num < total_pages
          THEN ShowPage(E, "goto_page", text, page_num, "Invalid Input")
          ELSE /\ ev' = Event("goto_page", text, "Invalid Page")
               /\ UNCHANGED enhIdle

EnhRezoom(E, op, zoom) ==
    \E fail \in Fails(E) :
        /\ zoom_level' = zoom
        /\ render_page(pdf_document, total_pages, current_page, zoom, fail)
        /\ \E out \in {RenderPageOutcome(pdf_document, total_pages,
                                           current_page, fail)} :
              ev' = Rendered(op, << >>, RenderMsg(out), out)

enh_zoom_in(E) ==
    /\ app = "enhanced"
    /\ UNCHANGED <<enhFrame, docVars, prev_btn, next_btn>>
    /\ IF ZoomLess(zoom_level, ZOOM_MAX)
       THEN EnhRezoom(E, "enh_zoom_in", zoom_level + 1)
       ELSE /\ ev' = Event("enh_zoom_in", << >>, "none")
            /\ UNCHANGED <<zoom_level, placements, scrollregion, top_y>>

enh_zoom_out(E) ==
    /\ app = "enhanced"
    /\ UNCHANGED <<enhFrame, docVars, prev_btn, next_btn>>
    /\ IF ZoomGreater(zoom_level, ZOOM_MIN)
       THEN EnhRezoom(E, "enh_zoom_out", zoom_level - 1)
       ELSE /\ ev' = Event("enh_zoom_out", << >>, "none")
            /\ UNCHANGED <<zoom_level, placements, scrollregion, top_y>>

----------------------------------------------------------------------------
(* Navigation specification: either program in a mapped window, under every *)
(* event, with documents of up to MaxPages equal pages, no library call     *)
(* raising, and the zoom kept within ZoomSpan steps of 1.0.                 *)

InZoomSpan == zoom_level \in (ZOOM_START - ZoomSpan) .. (ZOOM_START + ZoomSpan)

InFreeScroll == top_y \in (0 - MaxFreeScroll) .. MaxFreeScroll

InitMapped == Init /\ canvas_width > 1

ReaderLayoutNext ==
    \/ open_pdf(NavEnv)
    \/ zoom_in(NavEnv) /\ InZoomSpan'
    \/ zoom_out(NavEnv) /\ InZoomSpan'
    \/ toggle_two_up(NavEnv)
    \/ toggle_facing_mode(NavEnv)

\* an unconfined view (no scrollregion yet) is followed for MaxFreeScroll pixels
ReaderNavNext ==
    \/ \E text \in EntryTexts : jump_to_page(text)
    \/ on_page_up /\ (scrollregion.set \/ InFreeScroll')
    \/ on_page_down /\ (scrollregion.set \/ InFreeScroll')
    \/ on_home
    \/ on_end

EnhancedNext ==
    \/ enh_open_pdf(NavEnv)
    \/ prev_page(NavEnv)
    \/ next_page(NavEnv)
    \/ \E text \in EntryTexts : goto_page(NavEnv, text)
    \/ enh_zoom_in(NavEnv) /\ InZoomSpan'
    \/ enh_zoom_out(NavEnv) /\ InZoomSpan'

Next == ReaderLayoutNext \/ ReaderNavNext \/ EnhancedNext

Spec == InitMapped /\ [][Next]_vars

----------------------------------------------------------------------------
(* Fault specification: the reader of pdf_merger.py at zoom 1.0 in a mapped *)
(* window, where fitz.open and the calls of a render pass may raise.        *)

InitFaulty == InitMapped /\ app = "reader"

NextFaulty ==
    \/ open_pdf(FaultyEnv)
    \/ toggle_two_up(FaultyEnv)
    \/ toggle_facing_mode(FaultyEnv)
    \/ ReaderNavNext

SpecFaulty == InitFaulty /\ [][NextFaulty]_vars

----------------------------------------------------------------------------
(* Mixed-size fault specification: the single-column reader at zoom 1.0 in  *)
(* a mapped window, with documents of up to MaxMixedPages pages of two      *)
(* sizes, where fitz.open and the calls of a render pass may raise.         *)

MixedEnv == [files |-> SeqsUpTo(PageSizes, MaxMixedPages), mayFail |-> TRUE]

NextMixed ==
    \/ open_pdf(MixedEnv)
    \/ ReaderNavNext

SpecMixed == InitFaulty /\ [][NextMixed]_vars

----------------------------------------------------------------------------
(* Shared-document specification: either program at zoom 1.0 in a mapped    *)
(* window, with documents of up to MaxSharedPages pages, where library      *)
(* calls may raise and the editor tab of pdf_merger.py replaces the         *)
(* document it shares with the reader.                                      *)

NextShared ==
    \/ open_pdf(SharedEnv)
    \/ editor_open_pdf(SharedEnv)
    \/ toggle_two_up(SharedEnv)
    \/ toggle_facing_mode(SharedEnv)
    \/ ReaderNavNext
    \/ enh_open_pdf(SharedEnv)
    \/ prev_page(SharedEnv)
    \/ next_page(SharedEnv)
    \/ \E text \in EntryTexts : goto_page(SharedEnv, text)

SpecShared == InitMapped /\ [][NextShared]_vars

----------------------------------------------------------------------------
(* Editor specification: the reader and the editor tab of pdf_merger.py on  *)
(* their shared fields, at zoom 1.0 in a mapped window, with documents of   *)
(* up to MaxSharedPages pages, where library calls may raise.               *)

\* the numbers the page spinbox may hold when Reload is pressed
SpinValues == 0 .. MaxSharedPages + 1

NextEditor ==
    \/ open_pdf(SharedEnv)
    \/ editor_open_pdf(SharedEnv)
    \/ \E n \in SpinValues : editor_load_page(SharedEnv, n)
    \/ editor_apply_changes(SharedEnv)
    \/ toggle_two_up(SharedEnv)
    \/ \E text \in EntryTexts : jump_to_page(text)

SpecEditor == InitFaulty /\ [][NextEditor]_vars

----------------------------------------------------------------------------
(* Wide-page specification: the layout of pdf_merger.py under document,     *)
(* zoom and mode events, with documents of up to MaxSharedPages pages, some *)
(* of them wider than the canvas once zoomed; no library call raises.       *)

WidePageSizes == {[w |-> 80, h |-> 100], [w |-> 600, h |-> 100]}

WideEnv == [files |-> SeqsUpTo(WidePageSizes, MaxSharedPages) \ {<< >>},
            mayFail |-> FALSE]

NextWide ==
    \/ open_pdf(WideEnv)
    \/ zoom_in(WideEnv)
    \/ zoom_out(WideEnv)
    \/ toggle_two_up(WideEnv)
    \/ toggle_facing_mode(WideEnv)

SpecWide == InitReader /\ [][NextWide]_vars

----------------------------------------------------------------------------
(* Scroll specification: the reader of pdf_merger.py in a mapped window     *)
(* under every event that reaches the canvas, the mouse wheel and the arrow *)
(* keys included, at zoom 1.0, with documents of up to MaxSharedPages equal *)
(* pages, where library calls may raise.                                    *)

ReaderScrollNext ==
    \/ \E delta \in WheelDeltas :
          on_mousewheel(delta) /\ (scrollregion.set \/ InFreeScroll')
    \/ on_key_up /\ (scrollregion.set \/ InFreeScroll')
    \/ on_key_down /\ (scrollregion.set \/ InFreeScroll')

NextScroll ==
    \/ open_pdf(SharedEnv)
    \/ toggle_two_up(SharedEnv)
    \/ ReaderNavNext
    \/ ReaderScrollNext

SpecScroll == InitFaulty /\ [][NextScroll]_vars

----------------------------------------------------------------------------
(* Merge specification: the merger of either program and the script         *)
(* test_merge.py, with lists of up to MaxFiles files.                       *)

InitMerge ==
    /\ app \in {"reader", "enhanced", "test_merge"}
    /\ InitFields
    /\ canvas_width > 1

NextMerge ==
    \/ \E chosen \in SeqsUpTo(ChoosableFiles, MaxChosen) : add_files(chosen)
    \/ \E sel \in NoSelection .. MaxFiles - 1 : on_select(sel)
    \/ remove_selected
    \/ move_up
    \/ move_down
    \/ clear_all
    \/ merge_pdfs
    \/ \E files \in SeqsUpTo(ChoosableFiles, MaxFiles) : test_merge_pdfs(files)
    \/ test_main

SpecMerge == InitMerge /\ [][NextMerge]_vars

----------------------------------------------------------------------------
(* Properties *)

\* C1: in every reachable state of the reader, facing_cover_right = true
\* implies two_up = true (checking the facing box with two_up off turns
\* two_up on; toggling two_up off clears facing_cover_right).
C1_FacingImpliesTwoUp == facing_cover_right => two_up

\* the facing box was checked and the reader is in facing two-up layout
C1_Witness ==
    /\ ev.op = "toggle_facing_mode"
    /\ facing_cover_right
    /\ two_up
    /\ total_pages >= 2

\* the event of a step read a well-formed number outside [1, total_pages]
JumpOutOfRange ==
    /\ ev'.op \in {"jump_to_page", "goto_page"}
    /\ PyInt(ev'.text).ok
    /\ PyInt(ev'.text).val \notin 1 .. total_pages

\* C2: jump_to_page / goto_page with a numeric page number outside
\* [1, total_pages] (any number when total_pages = 0) yields Invalid Page and
\* changes neither the scroll position, nor the current page, nor any
\* document or layout state.
C2_OutOfRangeRejected ==
    [][JumpOutOfRange =>
          /\ ev'.msg = "Invalid Page"
          /\ ~ev'.moved
          /\ UNCHANGED <<top_y, docVars, zoom_level, modeVars, layoutVars,
                         btnVars>>]_vars

\* a jump past the last page of a document whose view was scrolled down
C2_Witness ==
    /\ ev.op = "jump_to_page"
    /\ ev.msg = "Invalid Page"
    /\ PyInt(ev.text).val = total_pages + 1
    /\ total_pages >= 2
    /\ top_y > 0

\* the position index has one entry per page of the document
IndexValid == has_page_positions /\ Len(page_positions) = total_pages

\* C3: after a render_all_pages pass that completes without error on an open
\* document with total_pages >= 1, len(page_positions) = total_pages, in
\* single-column, two-up and facing two-up layout alike.
C3_IndexLengthAfterPass ==
    (app = "reader" /\ ev.pass = "done" /\ total_pages >= 1) =>
        /\ has_page_positions
        /\ Len(page_positions) = total_pages

\* a completed pass in facing two-up layout over three or more pages
C3_Witness ==
    /\ ev.pass = "done"
    /\ two_up
    /\ facing_cover_right
    /\ total_pages >= 3
    /\ Len(page_positions) = total_pages

\* the event of a step is a jump to a page of the document, or a PageUp or
\* PageDown, taken while the position index and total_pages disagree
StaleNavigation ==
    /\ ev'.op \in {"jump_to_page", "on_page_up", "on_page_down"}
    /\ Len(page_positions) # total_pages
    /\ ev'.op = "jump_to_page" =>
          /\ PyInt(ev'.text).ok
          /\ PyInt(ev'.text).val \in 1 .. total_pages

\* C4: whenever len(page_positions) # total_pages, jump_to_page, PageUp and
\* PageDown do not take their target from page_positions (they use the
\* fallback) and show no error.
C4_StaleIndexNotRead ==
    [][StaleNavigation => /\ ~ev'.exact
                          /\ ev'.msg = "none"]_vars

SetMin(S) == CHOOSE x \in S : \A y \in S : x <= y

SetMax(S) == CHOOSE x \in S : \A y \in S : x >= y

\* a row of the current layout is at the top of the view
RowAtTop ==
    /\ IndexValid
    /\ \E i \in 1 .. Len(page_positions) : page_positions[i] = top_y

RowsBelow ==
    {page_positions[i] : i \in {j \in 1 .. Len(page_positions) : page_positions[j] > top_y}}

RowsAbove ==
    {page_positions[i] : i \in {j \in 1 .. Len(page_positions) : page_positions[j] < top_y}}

\* C5: with a row at the top of the view, PageDown sets the scroll target to
\* the top offset of the following row when there is one, and PageUp to that
\* of the preceding row when there is one: a full spread in two-up mode,
\* exactly one page in single-column mode.
C5_PageStepMovesOneRow ==
    [][/\ (ev'.op = "on_page_down" /\ RowAtTop /\ RowsBelow # {}) =>
              (ev'.moved /\ ev'.num = SetMin(RowsBelow))
       /\ (ev'.op = "on_page_up" /\ RowAtTop /\ RowsAbove # {}) =>
              (ev'.moved /\ ev'.num = SetMax(RowsAbove))]_vars

\* the event of a step is a page step forward on the last page, or backward
\* on page 0
BoundaryStep ==
    \/ /\ ev'.op = "on_page_down"
       /\ IndexValid /\ total_pages >= 1
       /\ CurrentIdx = total_pages - 1
    \/ /\ ev'.op = "on_page_up"
       /\ IndexValid /\ total_pages >= 1
       /\ CurrentIdx = 0
    \/ /\ ev'.op = "next_page"
       /\ total_pages >= 1
       /\ current_page = total_pages - 1
    \/ /\ ev'.op = "prev_page"
       /\ total_pages >= 1
       /\ current_page = 0

\* C6: a page step forward on the last page, and a page step backward on
\* page 0, is a no-op: the page index is unchanged, the scroll position is
\* not moved, and no error is raised.
C6_BoundaryStepNoOp ==
    [][BoundaryStep => /\ top_y' = top_y
                       /\ current_page' = current_page
                       /\ CurrentIdx' = CurrentIdx
                       /\ ev'.msg = "none"]_vars

StrictlyIncreasing(s) == \A i \in 1 .. Len(s) - 1 : s[i] < s[i + 1]

\* C7: in single-column mode a layout pass records exactly total_pages
\* placements, in page order, and the recorded top offsets are strictly
\* increasing in page index.
C7_SingleColumnPlacements ==
    (ev.pass = "done" /\ ~two_up) =>
        /\ Len(placements) = total_pages
        /\ Len(page_positions) = total_pages
        /\ \A i \in 1 .. total_pages :
              /\ placements[i].page = i - 1
              /\ placements[i].y = page_positions[i]
        /\ StrictlyIncreasing(page_positions)

\* a single-column pass, off zoom 1.0, over three or more pages of two heights
C7_Witness ==
    /\ ev.pass = "done"
    /\ ~two_up
    /\ total_pages >= 3
    /\ zoom_level # ZOOM_START
    /\ \E i, j \in 1 .. Len(placements) : placements[i].h # placements[j].h
    /\ StrictlyIncreasing(page_positions)

\* twice the x of the right-hand column beside the left page drawn as item
RightColumn(item) == 2 * (LEFT_MARGIN + item.w + GAP)

\* C8: in two-up mode without facing, the pages sharing a top offset are
\* (0,1),(2,3),...: total_pages/2 rows of two pages when total_pages is even,
\* and the same pairs followed by a final row of one page, placed as a left
\* page, when it is odd.
C8_TwoUpRows ==
    (ev.pass = "done" /\ two_up /\ ~facing_cover_right) =>
        /\ Len(placements) = total_pages
        /\ Len(page_positions) = total_pages
        /\ \A i, j \in 0 .. total_pages - 1 :
              (page_positions[i + 1] = page_positions[j + 1])
                  <=> (i \div 2 = j \div 2)
        /\ \A i \in 0 .. total_pages - 1 :
              /\ placements[i + 1].page = i
              /\ placements[i + 1].y = page_positions[i + 1]
              /\ placements[i + 1].x2 =
                    IF i % 2 = 0 THEN 2 * LEFT_MARGIN
                    ELSE RightColumn(placements[i])
        /\ Cardinality({page_positions[i] : i \in 1 .. total_pages})
              = (total_pages + 1) \div 2

\* a two-up pass over three pages: one pair and a final left page
C8_Witness ==
    /\ ev.pass = "done"
    /\ two_up
    /\ ~facing_cover_right
    /\ total_pages = 3
    /\ page_positions[1] = page_positions[2]
    /\ page_positions[3] > page_positions[2]
    /\ placements[3].x2 = 2 * LEFT_MARGIN

\* C9: in two-up mode with facing cover-right on, page 0 has a row of its own
\* and is drawn in the right-hand column, and the remaining pages are paired
\* from index 1: rows (1,2),(3,4),..., with a final row of one page when
\* total_pages is even.
C9_FacingRows ==
    (ev.pass = "done" /\ two_up /\ facing_cover_right) =>
        /\ Len(placements) = total_pages
        /\ Len(page_positions) = total_pages
        /\ \A j \in 1 .. total_pages - 1 :
              page_positions[j + 1] # page_positions[1]
        /\ placements[1].page = 0
        /\ placements[1].x2 = RightColumn(placements[1])
        /\ \A i, j \in 1 .. total_pages - 1 :
              (page_positions[i + 1] = page_positions[j + 1])
                  <=> ((i + 1) \div 2 = (j + 1) \div 2)
        /\ \A i \in 1 .. total_pages - 1 :
              /\ placements[i + 1].page = i
              /\ placements[i + 1].x2 =
                    IF i % 2 = 1 THEN 2 * LEFT_MARGIN
                    ELSE RightColumn(placements[i])

\* a facing pass over four pages: the cover, the pair (1,2) and page 3 alone
C9_Witness ==
    /\ ev.pass = "done"
    /\ two_up
    /\ facing_cover_right
    /\ total_pages = 4
    /\ page_positions[2] = page_positions[3]
    /\ page_positions[2] > page_positions[1]
    /\ page_positions[4] > page_positions[3]
    /\ placements[1].x2 > 2 * LEFT_MARGIN

\* the sum over j < i of (height of page j at zoom + 20)
RECURSIVE HeightsBefore(_, _, _)
HeightsBefore(doc, zoom, i) ==
    IF i = 0 THEN 0
    ELSE HeightsBefore(doc, zoom, i - 1) + Pix(doc, i - 1, zoom).h + 20

\* five pages of height 100
FiveUniformPages ==
    [state |-> "open", pages |-> [i \in 1 .. 5 |-> [w |-> 80, h |-> 100]]]

\* C10: in single-column mode the top offset of page i is 10 plus the sum
\* over j < i of (height_j + 20); five pages of height 100 at zoom 1.0 get
\* the offsets [10, 130, 250, 370, 490].
C10_SingleColumnOffsets ==
    /\ (ev.pass = "done" /\ ~two_up) =>
          /\ Len(page_positions) = total_pages
          /\ \A i \in 0 .. total_pages - 1 :
                page_positions[i + 1]
                    = 10 + HeightsBefore(pdf_document, zoom_level, i)
    /\ LayoutPass(FiveUniformPages, 5, ZOOM_START, FALSE, FALSE, NoFail,
                  canvas_width).pos = <<10, 130, 250, 370, 490>>

\* a single-column pass at zoom 1.0 over four pages, the second lower than
\* the others
C10_Witness ==
    /\ ev.pass = "done"
    /\ ~two_up
    /\ zoom_level = ZOOM_START
    /\ total_pages = 4
    /\ page_positions = <<10, 130, 210, 330>>

\* the event of a step is a jump to page n of the document, taken with a
\* position index of matching length
ValidJump ==
    /\ ev'.op = "jump_to_page"
    /\ PyInt(ev'.text).ok
    /\ PyInt(ev'.text).val \in 1 .. total_pages
    /\ IndexValid

\* C11: for a valid n in [1, total_pages] with a position index of matching
\* length, jump_to_page(n) sets the scroll fraction to
\* page_positions[n-1] / total_render_height, both values written by the
\* most recent layout pass.
C11_JumpFraction ==
    [][ValidJump =>
          /\ ev'.moved
          /\ ev'.exact
          /\ ev'.num = page_positions[PyInt(ev'.text).val]
          /\ has_render_height
          /\ ev'.den = total_render_height
          /\ last_pass = "done"]_vars

Abs(x) == IF x >= 0 THEN x ELSE 0 - x

\* round(fraction * total_render_height) for the fraction num / den of an event
RoundTrip(e) == RoundDiv(e.num * total_render_height, e.den)

\* the event of a step is a jump to a page n of the document that has a
\* recorded top offset, taken when total_render_height exists
JumpToPlacedPage ==
    /\ ev'.op = "jump_to_page"
    /\ PyInt(ev'.text).ok
    /\ PyInt(ev'.text).val \in 1 .. total_pages
    /\ has_page_positions
    /\ PyInt(ev'.text).val <= Len(page_positions)
    /\ has_render_height

\* C12 as stated: for every valid page n, round(fraction * total_render_height)
\* for the fraction produced by jump_to_page(n) is within 20 of page n's top
\* offset.
C12_RoundTripEveryJump ==
    [][JumpToPlacedPage =>
          Abs(RoundTrip(ev') - page_positions[PyInt(ev'.text).val]) <= 20]_vars

\* C12: when jump_to_page(n) takes the fraction from a position index of
\* matching length and total_render_height exists, round(fraction *
\* total_render_height) is exactly page_positions[n-1], and the view is moved
\* there unless the end of the scroll region confines it.
C12_RoundTripExactPath ==
    [][(ValidJump /\ has_render_height) =>
          /\ RoundTrip(ev') = page_positions[PyInt(ev'.text).val]
          /\ top_y' = Confine(page_positions[PyInt(ev'.text).val], scrollregion)]_vars

\* a jump to page 2 or later landed on that page's top offset
C12_Witness ==
    /\ ev.op = "jump_to_page"
    /\ ev.exact
    /\ PyInt(ev.text).val >= 2
    /\ IndexValid
    /\ has_render_height
    /\ ev.den = total_render_height
    /\ top_y = page_positions[PyInt(ev.text).val]
    /\ top_y > Y_START

\* the event of a step read an entry text that is not a well-formed integer
MalformedJump ==
    /\ ev'.op \in {"jump_to_page", "goto_page"}
    /\ ~PyInt(ev'.text).ok

\* every handler of the running program can take its next event (the jump
\* handlers: a page number and a text that is none)
AcceptsEvents ==
    /\ app = "reader" =>
          /\ \A text \in {<<"1">>, <<"a">>} : ENABLED jump_to_page(text)
          /\ ENABLED on_page_up
          /\ ENABLED on_page_down
          /\ ENABLED on_home
          /\ ENABLED on_end
          /\ ENABLED open_pdf(SharedEnv)
          /\ ENABLED editor_open_pdf(SharedEnv)
          /\ ENABLED zoom_in(SharedEnv)
          /\ ENABLED zoom_out(SharedEnv)
          /\ ENABLED toggle_two_up(SharedEnv)
          /\ ENABLED toggle_facing_mode(SharedEnv)
    /\ app = "enhanced" =>
          /\ \A text \in {<<"1">>, <<"a">>} : ENABLED goto_page(SharedEnv, text)
          /\ ENABLED prev_page(SharedEnv)
          /\ ENABLED next_page(SharedEnv)
          /\ ENABLED enh_open_pdf(SharedEnv)
          /\ ENABLED enh_zoom_in(SharedEnv)
          /\ ENABLED enh_zoom_out(SharedEnv)

\* C13: a jump whose input is not a well-formed integer yields Invalid Input
\* and leaves scroll position, page, document and layout unchanged; and after
\* any jump, valid or not, every handler still accepts its next event.
C13_MalformedJumpRejected ==
    /\ [][MalformedJump =>
             /\ ev'.msg = "Invalid Input"
             /\ ~ev'.moved
             /\ ~ev'.cleared
             /\ UNCHANGED <<top_y, docVars, zoom_level, modeVars, layoutVars,
                            btnVars, editorVars>>]_vars
    /\ [](ev.op \in {"jump_to_page", "goto_page"} => AcceptsEvents)

\* a malformed jump on a document whose view was scrolled down
C13_Witness ==
    /\ ev.op = "jump_to_page"
    /\ ev.msg = "Invalid Input"
    /\ ev.text = <<"1", ".", "5">>
    /\ total_pages >= 2
    /\ last_pass = "failed"
    /\ top_y > 0

\* C14: after a successful layout pass in any mode, total_render_height is at
\* least top offset + height + 20 (the trailing margin) for every placed
\* page, the shorter page of a two-up row included, and so strictly greater
\* than every entry of page_positions.
C14_HeightCoversPages ==
    (ev.pass = "done" /\ app = "reader") =>
        /\ has_render_height
        /\ scrollregion.h = total_render_height
        /\ \A i \in 1 .. Len(placements) :
              total_render_height >= placements[i].y + placements[i].h + 20
        /\ \A i \in 1 .. Len(page_positions) :
              total_render_height > page_positions[i]

\* a completed two-up pass whose last row holds a lower left and a higher
\* right page
C14_Witness ==
    /\ ev.pass = "done"
    /\ two_up
    /\ total_pages >= 2
    /\ Len(placements) = total_pages
    /\ placements[total_pages].y = placements[total_pages - 1].y
    /\ placements[total_pages].h > placements[total_pages - 1].h
    /\ total_render_height = placements[total_pages].y + placements[total_pages].h + 20

\* C15: a layout request with no pages to lay out (no document, or
\* total_pages = 0) leaves no placements on the canvas and an empty
\* page_positions, also when a previous document had been laid out before.
C15_EmptyLayout ==
    (ev.pass = "skipped" /\ app = "reader") =>
        /\ placements = << >>
        /\ page_positions = << >>

\* C16: after any sequence of open_pdf, zoom_in and zoom_out events the zoom
\* level is within [0.4, 3.0]: never below ZOOM_MIN, never above ZOOM_MAX.
C16_ZoomInRange ==
    /\ ~ZoomLess(zoom_level, ZOOM_MIN)
    /\ ~ZoomGreater(zoom_level, ZOOM_MAX)

\* the index and the height a completed layout pass over the open document
\* at the current zoom and mode produces
FreshLayout ==
    LayoutPass(pdf_document, total_pages, zoom_level, two_up,
               facing_cover_right, NoFail, canvas_width)

\* C17: every zoom, layout-mode and document change of the reader program
\* (the editor's open included) runs a layout pass in the same event, so
\* between events, unless the latest pass was cut short by a library error,
\* page_positions and total_render_height are those of the open document at
\* the current zoom and mode.
C17_LayoutIsCurrent ==
    /\ [][(/\ app = "reader"
           /\ pdf_document'.state = "open"
           /\ <<pdf_document, zoom_level, two_up, facing_cover_right>>
                 # <<pdf_document, zoom_level, two_up, facing_cover_right>>')
            => ev'.pass # "none"]_vars
    /\ []((app = "reader" /\ Truthy(pdf_document) /\ last_pass = "done") =>
            /\ has_page_positions /\ page_positions = FreshLayout.pos
            /\ has_render_height /\ total_render_height = Max(FreshLayout.y, 1))

\* items i and j of the canvas are the left and the right page of one row
SameTwoUpRow(i, j) ==
    /\ two_up
    /\ j = i + 1
    /\ placements[i].x2 = 2 * LEFT_MARGIN
    /\ placements[j].x2 = RightColumn(placements[i])

\* C18: in all three layout modes a completed pass records the placements in
\* increasing page order, page_positions[i] being the top offset of page i;
\* page_positions is non-decreasing; and two pages have the same top offset
\* only if they are the left and the right page of one two-up row.
C18_OrderedOffsets ==
    (ev.pass = "done" /\ app = "reader") =>
        /\ Len(placements) = total_pages
        /\ Len(page_positions) = total_pages
        /\ \A i \in 1 .. total_pages :
              /\ placements[i].page = i - 1
              /\ placements[i].y = page_positions[i]
        /\ \A i, j \in 1 .. total_pages :
              i < j => /\ page_positions[i] <= page_positions[j]
                       /\ page_positions[i] = page_positions[j] => SameTwoUpRow(i, j)

\* a completed facing pass over four pages: the cover alone, one row of two
\* pages with equal offsets, and a last page alone
C18_Witness ==
    /\ ev.pass = "done"
    /\ two_up /\ facing_cover_right
    /\ total_pages = 4
    /\ Len(page_positions) = 4
    /\ page_positions[1] < page_positions[2]
    /\ page_positions[2] = page_positions[3]
    /\ page_positions[3] < page_positions[4]
    /\ SameTwoUpRow(2, 3)

\* C19: every fraction a navigation operation of the reader passes to
\* yview_moveto (jump_to_page on either path, PageUp, PageDown, Home, End)
\* has a positive divisor and lies in [0, 1], in every reachable state, also
\* after a layout pass that failed part-way.
C19_FractionInUnitInterval ==
    (app = "reader" /\ ev.moved) =>
        /\ ev.den > 0
        /\ 0 <= ev.num
        /\ ev.num <= ev.den

\* the number of pages of the first n files of a list
RECURSIVE PagesBefore(_, _)
PagesBefore(files, n) ==
    IF n = 0 THEN 0 ELSE PagesBefore(files, n - 1) + PageCount(files[n])

\* the places of the output holding page idx of entry k
PlacesOf(k, idx) ==
    {p \in 1 .. Len(merged.pages) :
        merged.pages[p].entry = k /\ merged.pages[p].idx = idx}

\* C20: a merge that wrote its output appended every page of every input
\* exactly once, file by file in list order and page by page in file order,
\* and the page count it returned or reported is the sum of the inputs' page
\* counts.
C20_MergeAppendsInOrder ==
    (merged.state = "written") =>
        /\ merged.total_pages = PagesBefore(merged.files, Len(merged.files))
        /\ Len(merged.pages) = merged.total_pages
        /\ \A k \in 1 .. Len(merged.files) :
              \A idx \in 0 .. PageCount(merged.files[k]) - 1 :
                 /\ PlacesOf(k, idx) = {PagesBefore(merged.files, k - 1) + idx + 1}
                 /\ merged.pages[PagesBefore(merged.files, k - 1) + idx + 1].file
                       = merged.files[k]

\* the merger wrote the merge of a two-page file, a one-page file and the
\* two-page file again: five pages
C20_Witness ==
    /\ merged.state = "written"
    /\ app \in {"reader", "enhanced"}
    /\ ev.op = "merge_pdfs"
    /\ merged.files = <<"/docs/two.pdf", "test1.pdf", "/docs/two.pdf">>
    /\ merged.total_pages = 5
    /\ merged.pages[5] = [entry |-> 3, file |-> "/docs/two.pdf", idx |-> 1]

NavOps ==
    {"jump_to_page", "on_page_up", "on_page_down", "on_home", "on_end",
     "on_key_up", "on_key_down", "on_mousewheel"}

\* C21: a navigation operation of the reader (jump_to_page, PageUp, PageDown,
\* Home, End, the arrow keys, the mouse wheel) changes only the scroll
\* position: pdf_document, total_pages, zoom_level, two_up,
\* facing_cover_right, page_positions and total_render_height are unchanged.
C21_NavigationFrame ==
    [][ev'.op \in NavOps =>
          UNCHANGED <<pdf_document, total_pages, zoom_level, two_up,
                      facing_cover_right, has_page_positions, page_positions,
                      has_render_height, total_render_height>>]_vars

\* the wheel scrolled a laid-out document down from its top
C21_Witness ==
    /\ ev.op = "on_mousewheel"
    /\ ev.units > 0
    /\ Truthy(pdf_document)
    /\ last_pass = "done"
    /\ scrollregion.set
    /\ top_y > 0

\* the iteration of the pass that starts at page_index i in the current mode
IterationAt(i) ==
    LET a == [StartAcc EXCEPT !.i = i]
    IN IF ~two_up THEN SingleRow(pdf_document, zoom_level, canvas_width, a)
       ELSE IF facing_cover_right /\ i = 0
       THEN FacingCover(pdf_document, total_pages, zoom_level, NoFail, a)
       ELSE TwoUpRow(pdf_document, total_pages, zoom_level, a)

\* C22: a layout pass over the open document terminates in each of the three
\* modes: every iteration advances page_index by 1 or 2 and not beyond
\* total_pages, the pass ends with page_index = total_pages, and a completed
\* pass has placed every page 0 .. total_pages - 1 exactly once.
C22_PassTerminates ==
    (app = "reader" /\ Truthy(pdf_document)) =>
        /\ \A i \in 0 .. total_pages - 1 :
              /\ IterationAt(i).i - i \in {1, 2}
              /\ IterationAt(i).i <= total_pages
        /\ FreshLayout.i = total_pages
        /\ ev.pass = "done" =>
              \A page \in 0 .. total_pages - 1 :
                 Cardinality({k \in 1 .. Len(placements) : placements[k].page = page}) = 1

\* a completed facing pass over four pages: iterations advancing by 1, 2, 1
C22_Witness ==
    /\ ev.pass = "done"
    /\ two_up /\ facing_cover_right
    /\ total_pages = 4
    /\ IterationAt(0).i = 1
    /\ IterationAt(1).i = 3
    /\ IterationAt(3).i = 4
    /\ Len(placements) = 4

\* C23: in the single-page reader, whenever a document with pages is open,
\* current_page is one of its pages, Previous is enabled exactly when
\* current_page > 0 and Next exactly when current_page < total_pages - 1.
C23_CurrentPageAndButtons ==
    (app = "enhanced" /\ pdf_document.state = "open" /\ total_pages >= 1) =>
        /\ 0 <= current_page
        /\ current_page <= total_pages - 1
        /\ prev_btn <=> (current_page > 0)
        /\ next_btn <=> (current_page < total_pages - 1)

\* Next moved the single-page reader to the last page of a document of three
\* or more pages
C23_Witness ==
    /\ app = "enhanced"
    /\ ev.op = "next_page"
    /\ pdf_document.state = "open"
    /\ total_pages >= 3
    /\ current_page = total_pages - 1
    /\ prev_btn /\ ~next_btn

\* C24: after any sequence of merger events every button reflects the current
\* list and selection: Merge is enabled iff there are two or more files,
\* Clear iff there is a file, Remove iff an entry is selected, Move Up iff
\* the selected index is above 0, Move Down iff it is below the last index.
C24_ButtonsReflectState ==
    IsGui =>
        /\ merge_button <=> (Len(pdf_files) >= 2)
        /\ clear_button <=> (Len(pdf_files) > 0)
        /\ remove_button <=> (selection # NoSelection)
        /\ move_up_button <=> (selection # NoSelection /\ selection > 0)
        /\ move_down_button <=>
              (selection # NoSelection /\ selection < Len(pdf_files) - 1)

\* C25: after any sequence of merger events the listbox and pdf_files are
\* aligned: same length, and listbox entry i is the file name of
\* pdf_files[i].
C25_ListboxAligned ==
    IsGui =>
        /\ Len(file_listbox) = Len(pdf_files)
        /\ \A i \in 1 .. Len(pdf_files) : file_listbox[i] = FileName(pdf_files[i])

\* Move Up put a file of another folder above the file it followed
C25_Witness ==
    /\ ev.op = "move_up"
    /\ selection = 0
    /\ pdf_files = <<"/docs/two.pdf", "test1.pdf">>
    /\ file_listbox = <<"two.pdf", "test1.pdf">>

----------------------------------------------------------------------------
\* the step opens a document and the library raises while opening it
OpenFails ==
    /\ ev'.op \in {"open_pdf", "editor_open_pdf", "enh_open_pdf"}
    /\ ev'.msg = "Error"

\* C26: when opening a new PDF fails inside the library, the document that
\* was open stays open with its pages, and total_pages, current_page and
\* zoom_level keep their values.
C26_FailedOpenKeepsState ==
    [][OpenFails => UNCHANGED <<pdf_document, total_pages, current_page,
                                zoom_level>>]_vars

\* C27: whenever editor_apply_changes draws on a page, that page is the page
\* of the document whose text editor_load_page last loaded.
C27_AppliesToLoadedPage ==
    [][(ev'.op = "editor_apply_changes" /\ ev'.msg = "Success")
          => /\ edited' = PageOf(pdf_document, current_page)
             /\ original_text = PageOf(pdf_document, current_page)]_vars

\* twice the canvas x of the left and of the right edge of a placed image:
\* anchor "nw" puts x at the left edge, anchor "n" at the middle of the top
LeftEdge2(item) == IF item.anchor = "n" THEN item.x2 - item.w ELSE item.x2

RightEdge2(item) ==
    IF item.anchor = "n" THEN item.x2 + item.w ELSE item.x2 + 2 * item.w

\* C28: after a successful layout pass in any mode every placed page lies
\* inside the scroll region: 0 <= left edge, right edge <= total_width (which
\* is at least 800), 0 <= top and bottom <= total_render_height, whatever the
\* page width.
C28_PagesInsideRegion ==
    (ev.pass = "done" /\ app = "reader") =>
        /\ scrollregion.set
        /\ scrollregion.w >= MIN_TOTAL_WIDTH
        /\ scrollregion.h = total_render_height
        /\ \A i \in 1 .. Len(placements) :
              /\ 0 <= LeftEdge2(placements[i])
              /\ RightEdge2(placements[i]) <= 2 * scrollregion.w
              /\ 0 <= placements[i].y
              /\ placements[i].y + placements[i].h <= total_render_height

\* how often file f occurs in the sequence s
Occurrences(s, f) == Cardinality({i \in 1 .. Len(s) : s[i] = f})

\* t holds the same files as s, each as often
SameFiles(s, t) ==
    /\ Len(t) = Len(s)
    /\ \A i \in 1 .. Len(s) : Occurrences(t, s[i]) = Occurrences(s, s[i])

\* t is s with the entries at the 0-based indexes index and index + 1
\* exchanged and every other entry in place
NeighboursExchanged(s, t, index) ==
    /\ Len(t) = Len(s)
    /\ index >= 0 /\ index + 2 <= Len(s)
    /\ t[index + 1] = s[index + 2]
    /\ t[index + 2] = s[index + 1]
    /\ \A i \in 1 .. Len(s) : i \notin {index + 1, index + 2} => t[i] = s[i]

\* C29: move_up and move_down keep the number and the multiset of the files;
\* a move exchanges the selected file with its neighbour and the selection
\* follows it; move_up at index 0 and move_down at the last index change
\* nothing; and a move_down right after a move_up that moved a file moves the
\* same file back to where it was.
C29_MovesOnlySwap ==
    [][/\ ev'.op \in {"move_up", "move_down"} =>
            /\ SameFiles(pdf_files, pdf_files')
            /\ SameFiles(file_listbox, file_listbox')
            /\ ~ev'.moved => UNCHANGED <<pdf_files, file_listbox, selection>>
       /\ ev'.op = "move_up" =>
            /\ ev'.moved <=> (selection # NoSelection /\ selection > 0)
            /\ ev'.moved =>
                  /\ selection' = selection - 1
                  /\ NeighboursExchanged(pdf_files, pdf_files', selection - 1)
                  /\ NeighboursExchanged(file_listbox, file_listbox', selection - 1)
       /\ ev'.op = "move_down" =>
            /\ ev'.moved <=> (selection # NoSelection /\ selection < Len(pdf_files) - 1)
            /\ ev'.moved =>
                  /\ selection' = selection + 1
                  /\ NeighboursExchanged(pdf_files, pdf_files', selection)
                  /\ NeighboursExchanged(file_listbox, file_listbox', selection)
       /\ (ev.op = "move_up" /\ ev.moved /\ ev'.op = "move_down") =>
            /\ ev'.moved
            /\ selection' = selection + 1
            /\ pdf_files' = Swap(pdf_files, selection, selection + 1)
      ]_vars

\* a move_down that moved the middle one of three different files to the end
C29_Witness ==
    /\ ev.op = "move_down" /\ ev.moved
    /\ Len(pdf_files) = 3
    /\ selection = 2
    /\ pdf_files[1] # pdf_files[2] /\ pdf_files[2] # pdf_files[3]
    /\ merger_status = "File moved down"

\* C30: merge_pdfs writes an output file only when pdf_files holds at least
\* two files and an output path was chosen: refused for too few files or with
\* the save dialog cancelled it writes nothing; in every outcome it leaves
\* pdf_files and the listbox as they were; and nothing else in the GUI
\* programs writes an output file.
C30_MergeWritesOnlyWhenAsked ==
    [][/\ ev'.op = "merge_pdfs" =>
            /\ UNCHANGED <<pdf_files, file_listbox, selection>>
            /\ ev'.msg \in {"Not Enough Files", "none", "Success", "Error"}
            /\ ev'.msg = "Not Enough Files" <=> Len(pdf_files) < 2
            /\ ev'.msg \in {"Not Enough Files", "none"} => UNCHANGED merged
            /\ merged' # merged =>
                  /\ Len(pdf_files) >= 2
                  /\ merged'.files = pdf_files
            /\ ev'.msg = "Success" =>
                  /\ merged'.state = "written"
                  /\ merged'.files = pdf_files
                  /\ Len(merged'.files) >= 2
       /\ (IsGui /\ merged' # merged) => ev'.op = "merge_pdfs"
      ]_vars

\* the save dialog of a merge of two files was cancelled after an earlier
\* merge of other files had been written: the earlier output is still there
C30_Witness ==
    /\ ev.op = "merge_pdfs" /\ ev.msg = "none"
    /\ Len(pdf_files) = 2
    /\ merged.state = "written"
    /\ merged.files # pdf_files
    /\ file_listbox = FileNames(pdf_files)

============================================================================
